---- MODULE Spec2Model ----
(***************************************************************************)
(* A model of RustAudio/sound_stream.                                      *)
(*                                                                         *)
(*   Spec          the four iterator streams driven by next():             *)
(*                   event::SoundStream          (src/src/event.rs)        *)
(*                   input::BlockingStream       (src/src/stream/input.rs) *)
(*                   output::BlockingStream      (src/src/stream/output.rs)*)
(*                   duplex::BlockingStream      (src/src/stream/duplex.rs)*)
(*                 against a device that answers every availability query, *)
(*                 read and write nondeterministically.                    *)
(*   SpecWindowDevice  input::BlockingStream against a device that offers  *)
(*                 exactly one window of frames on every poll.             *)
(*   SpecBuilder   event::SoundStreamBuilder: the setters and run().       *)
(*   SpecBurst     input:: and duplex::BlockingStream against a device     *)
(*                 whose input side delivers one large burst.              *)
(*   SpecCallback  the wrapper closures of run_callback, as PortAudio      *)
(*                 invokes them (input, output and duplex).                *)
(*   SpecTimed     event::SoundStream over two rounds of events, with the  *)
(*                 clock readings its Update events measure.               *)
(*   SpecStalled   event::SoundStream, output:: and duplex::BlockingStream *)
(*                 against a device that never fails and whose output      *)
(*                 side stalls.                                            *)
(*   SpecBuilders  SoundStreamBuilder and the builder of the stream        *)
(*                 module (stream::SoundStream), setters and run().        *)
(*   SpecClosing   the four iterator streams with close() and drop of the  *)
(*                 handle between the next() calls.                        *)
(*   SpecSaturating  output:: and duplex::BlockingStream with windows      *)
(*                 large enough to fill the output accumulator.            *)
(*   SpecTakeFront utils::take_front applied to small queues.              *)
(*   SpecBackpressure  input::BlockingStream against a device that always  *)
(*                 has frames ready, with the loop of next() kept running. *)
(*   SpecFair      event::SoundStream against a device that never fails    *)
(*                 and keeps offering frames to read and room to write.    *)
(*   SpecWait      wait_for_stream, one availability query at a time.      *)
(*   SpecStarved   duplex::BlockingStream with windows that fill the       *)
(*                 output accumulator, input arriving meanwhile.           *)
(*   SpecPassthrough  duplex::BlockingStream and the duplex run_callback   *)
(*                 closure on one device, the caller copying input to      *)
(*                 output as in the examples.                              *)
(*                                                                         *)
(* Samples read from the device are numbered 1, 2, 3, ... in the order     *)
(* the device delivers them; samples the caller writes into an Out window  *)
(* are numbered -1, -2, -3, ...; Sample::zero() is 0.                      *)
(***************************************************************************)
EXTENDS Integers, Sequences, FiniteSets, TLC

VARIABLES
    kind,           \* which stream type this is
    frames,         \* BlockingStream.frames / SoundStream.stream_settings.frames
    upd_frames,     \* SoundStream.update_settings.frames
    in_channels,    \* channels of the input side
    out_channels,   \* channels of the output side
    input_buffer,   \* input accumulator
    in_capacity,    \* input_buffer.capacity()
    output_buffer,  \* output accumulator
    out_capacity,   \* output_buffer.capacity()
    user_buffer,    \* pending output window (output:: and duplex::)
    next_event,     \* SoundStream.next_event
    last_event,     \* duplex BlockingStream.last_event
    pc,             \* "idle": between calls; "loop": inside next()'s loop
    window_live,    \* the last yielded event was Out and its slice is still the caller's
    trace,          \* history: what each next() call returned
    devRead,        \* history: concatenation of the buffers device reads returned
    devWritten,     \* history: concatenation of the buffers passed to device write
    outWindows,     \* history: concatenation of the Out windows as the caller left them
    reports,        \* history: number of error reports printed
    polls,          \* history: device polls made by input::BlockingStream
    last_time,      \* SoundStream.last_time: the clock reading Update measures from
    clockReads,     \* history: the readings of SteadyTime::now(), run()'s first
    adapter,        \* NonBlockingStream: the wrapper closure run_callback builds
    builder,        \* SoundStreamBuilder and the outcome of run()
    handle          \* is_closed, and the history of close() and drop

streamVars == <<kind, frames, upd_frames, in_channels, out_channels, input_buffer,
                in_capacity, output_buffer, out_capacity, user_buffer, next_event,
                last_event, pc, window_live, trace, devRead, devWritten, outWindows,
                reports, polls, last_time, clockReads, adapter, handle>>

\* the variables of the streams driven by next()
pollVars == <<kind, frames, upd_frames, in_channels, out_channels, input_buffer,
              in_capacity, output_buffer, out_capacity, user_buffer, next_event,
              last_event, pc, window_live, trace, devRead, devWritten, outWindows,
              reports, polls, last_time, clockReads, handle>>

vars == <<kind, frames, upd_frames, in_channels, out_channels, input_buffer,
          in_capacity, output_buffer, out_capacity, user_buffer, next_event,
          last_event, pc, window_live, trace, devRead, devWritten, outWindows,
          reports, polls, last_time, clockReads, adapter, builder, handle>>

----------------------------------------------------------------------------
(* Bounds of the model. *)

\* next() calls made on one stream
MaxCalls == 4
\* samples the device delivers over one run
MaxRead == 6
\* device polls counted for input::BlockingStream
MaxPolls == 5
\* InputOverflowed / OutputUnderflowed answers before an availability query settles
MaxOverflows == 1
\* the latest reading of a clock
MaxClock == 3
\* next() calls made on a stream whose Update events are followed
MaxTimedCalls == 6
\* next() calls made on a stream whose device output stalls
MaxStalledCalls == 8
\* close() calls the caller makes on one stream
MaxCloses == 2
\* next() calls made on a stream that is closed and dropped along the way
MaxClosingCalls == 2
\* the longest queue take_front is tried on, and the calls made on it
MaxQueue == 3
MaxTakes == 2
\* windows of input the device delivers while its output side stalls
MaxStarvedWindows == 2
\* next() calls made on that stream
MaxStarvedCalls == 5
\* samples the device delivers before its input backlog builds up
MaxBeforeBacklog == 8
\* next() calls made on a stream whose device is fair
MaxFairCalls == 8
\* calls of wait_for_stream followed on their own
MaxWaits == 3

\* frames per buffer of the blocking streams (0: no buffer frequency requested)
FrameChoices == {0, 1, 2}
ChannelChoices == {1, 2}

Max(a, b) == IF a >= b THEN a ELSE b
Min(a, b) == IF a <= b THEN a ELSE b

----------------------------------------------------------------------------
(* Program constants and pure helpers. *)

MINIMUM_BUFFER_RESERVATION == 2048

\* Settings::buffer_size
buffer_size(fr, ch) == fr * ch

\* take_front that returns what the queue holds when asked for more
take_front_returns_short(vec, num_elems) ==
    [ok    |-> TRUE,
     taken |-> SubSeq(vec, 1, Min(num_elems, Len(vec))),
     rest  |-> SubSeq(vec, Min(num_elems, Len(vec)) + 1, Len(vec))]

\* take_front with the boundary off by one: the element after the ones taken is lost
take_front_off_by_one(vec, num_elems) ==
    [ok    |-> num_elems <= Len(vec),
     taken |-> SubSeq(vec, 1, Min(num_elems, Len(vec))),
     rest  |-> SubSeq(vec, Min(num_elems, Len(vec)) + 2, Len(vec))]

\* utils::take_front: pops num_elems elements off the front, one by one;
\* pop_front().unwrap() panics when the queue runs out.
take_front(vec, num_elems) ==
    [ok    |-> num_elems <= Len(vec),
     taken |-> SubSeq(vec, 1, Min(num_elems, Len(vec))),
     rest  |-> SubSeq(vec, Min(num_elems, Len(vec)) + 1, Len(vec))]

\* Vec / VecDeque growth on extend: the allocation is kept while the new length
\* fits and is otherwise at least doubled.
reserve(cap, new_len) == IF new_len <= cap THEN cap ELSE Max(2 * cap, new_len)

\* VecDeque::with_capacity(max(2 * frames * channels, MINIMUM_BUFFER_RESERVATION))
\* The capacity of the new queue is taken to be the reservation asked for,
\* the least that with_capacity guarantees.
buffer_len(fr, ch) == Max((fr * ch) * 2, MINIMUM_BUFFER_RESERVATION)

\* repeat(Sample::zero()).take(n)
zeros(n) == [i \in 1..n |-> 0]

\* a window whose slice starts at the head of the buffer, not at start
out_window_from_head(buffer, n) ==
    [buffer |-> buffer \o zeros(n),
     slice |-> SubSeq(buffer \o zeros(n), 1, Len(buffer) + n)]

\* The window of an Out event (output.rs 308-319, duplex.rs 437-448,
\* event.rs 359-371): let start = buffer.len(); buffer.extend(n zeros);
\* the slice handed out is &mut buffer[start..].
out_window(buffer, n) ==
    [buffer |-> buffer \o zeros(n),
     slice |-> SubSeq(buffer \o zeros(n), Len(buffer) + 1, Len(buffer) + n)]

----------------------------------------------------------------------------
(* The device: what an availability query, a read and a write can answer. *)

FramesAnswer(n) == [tag |-> "Frames", n |-> n]
ErrAnswer == [tag |-> "Err", n |-> 0]
\* StreamAvailable::InputOverflowed / OutputUnderflowed
FlaggedAnswer == [tag |-> "Flagged", n |-> 0]

\* The answers one wait_for_stream call draws from the device: some flagged
\* answers, then a frame count out of ns or an error.
Answers(ns) ==
    {[i \in 1..(k + 1) |-> IF i <= k THEN FlaggedAnswer ELSE a] :
        k \in 0..MaxOverflows, a \in {FramesAnswer(n) : n \in ns} \cup {ErrAnswer}}

\* wait_for_stream that gives up on the first answer that is no frame count
wait_for_stream_fails_on_flag(answers) ==
    IF answers[1].tag = "Frames" THEN [ok |-> TRUE, frames |-> answers[1].n]
    ELSE [ok |-> FALSE, frames |-> 0]

\* stream::wait_for_stream (and its copy in event.rs)
RECURSIVE wait_for_stream(_)
wait_for_stream(answers) ==
    IF answers[1].tag = "Frames" THEN [ok |-> TRUE, frames |-> answers[1].n]
    ELSE IF answers[1].tag = "Err" THEN [ok |-> FALSE, frames |-> 0]
    ELSE wait_for_stream(Tail(answers))

\* frame counts the device may report
AvailChoices == {0, 1, 2}

\* frame counts the input side may report: the run delivers MaxRead samples at most
InAvail == {n \in AvailChoices : Len(devRead) + n * in_channels <= MaxRead}

\* the samples a read of n frames returns
read_samples(n) == [i \in 1..(n * in_channels) |-> Len(devRead) + i]

\* A call the code does not make draws no answer: the outcome of a read or a
\* write is chosen only when one is issued, an availability answer only when
\* the query is reached.
Outcomes(issued) == IF issued THEN BOOLEAN ELSE {TRUE}
AnswersIf(reached, ns) == IF reached THEN Answers(ns) ELSE {<<ErrAnswer>>}

----------------------------------------------------------------------------
(* One step of a next() call: a record of the state it leaves behind.      *)
(* ret is "continue" while the call keeps looping, else what it returns.   *)

cur == [ib |-> input_buffer, icap |-> in_capacity, ob |-> output_buffer,
        ocap |-> out_capacity, ub |-> user_buffer, rd |-> devRead, wr |-> devWritten, ow |-> outWindows,
        ne |-> next_event, le |-> last_event, polls |-> polls,
        lt |-> last_time, cr |-> clockReads,
        rep |-> 0, ret |-> "continue", data |-> <<>>]

\* println!("An error occurred ..."); return None
Fail(r) == [r EXCEPT !.rep = 1, !.ret = "None", !.data = <<>>]

Finish(r) ==
    /\ input_buffer' = r.ib
    /\ in_capacity' = r.icap
    /\ output_buffer' = r.ob
    /\ out_capacity' = r.ocap
    /\ user_buffer' = r.ub
    /\ devRead' = r.rd
    /\ devWritten' = r.wr
    /\ outWindows' = r.ow
    /\ next_event' = r.ne
    /\ last_event' = r.le
    /\ polls' = r.polls
    /\ last_time' = r.lt
    /\ clockReads' = r.cr
    /\ reports' = reports + r.rep
    /\ pc' = IF r.ret = "continue" THEN "loop" ELSE IF r.ret = "panic" THEN "panic" ELSE "idle"
    /\ trace' = IF r.ret \in {"continue", "panic"} THEN trace
                ELSE Append(trace, [type |-> r.ret, data |-> r.data])
    /\ window_live' = (r.ret = "Out")
    /\ UNCHANGED <<kind, frames, upd_frames, in_channels, out_channels, adapter,
                   builder, handle>>

CanCall == pc = "idle" /\ Len(trace) < MaxCalls

----------------------------------------------------------------------------
(* input::BlockingStream *)

\* input_loop that ends the iteration when the device has nothing ready
input_loop_ends_when_empty(answers, read_ok) ==
    LET bsize == buffer_size(frames, in_channels)
        t == take_front(input_buffer, bsize)
        w == wait_for_stream(answers)
        polled == [cur EXCEPT !.polls = polls + 1]
        grown == input_buffer \o read_samples(w.frames)
    IN  IF Len(input_buffer) >= bsize
        THEN IF t.ok THEN [cur EXCEPT !.ib = t.rest, !.ret = "In", !.data = t.taken]
                     ELSE [cur EXCEPT !.ret = "panic"]
        ELSE IF ~w.ok THEN Fail(polled)
        ELSE IF w.frames > 0 /\ in_capacity >= Len(input_buffer) + w.frames
        THEN IF read_ok
             THEN [polled EXCEPT !.ib = grown, !.icap = reserve(in_capacity, Len(grown)),
                                 !.rd = devRead \o read_samples(w.frames)]
             ELSE Fail(polled)
        ELSE [polled EXCEPT !.ret = "None"]

\* input_loop that swallows a failed read and keeps polling
input_loop_ignores_read_error(answers, read_ok) ==
    LET bsize == buffer_size(frames, in_channels)
        t == take_front(input_buffer, bsize)
        w == wait_for_stream(answers)
        polled == [cur EXCEPT !.polls = polls + 1]
        grown == input_buffer \o read_samples(w.frames)
    IN  IF Len(input_buffer) >= bsize
        THEN IF t.ok THEN [cur EXCEPT !.ib = t.rest, !.ret = "In", !.data = t.taken]
                     ELSE [cur EXCEPT !.ret = "panic"]
        ELSE IF ~w.ok THEN Fail(polled)
        ELSE IF w.frames > 0 /\ in_capacity >= Len(input_buffer) + w.frames /\ read_ok
        THEN [polled EXCEPT !.ib = grown, !.icap = reserve(in_capacity, Len(grown)),
                            !.rd = devRead \o read_samples(w.frames)]
        ELSE polled

\* one turn of the loop of BlockingStream::next (input.rs 260-294)
input_loop(answers, read_ok) ==
    LET bsize == buffer_size(frames, in_channels)
        t == take_front(input_buffer, bsize)
        w == wait_for_stream(answers)
        polled == [cur EXCEPT !.polls = polls + 1]
        grown == input_buffer \o read_samples(w.frames)
    IN  IF Len(input_buffer) >= bsize
        THEN IF t.ok THEN [cur EXCEPT !.ib = t.rest, !.ret = "In", !.data = t.taken]
                     ELSE [cur EXCEPT !.ret = "panic"]
        ELSE IF ~w.ok THEN Fail(polled)
        ELSE IF w.frames > 0 /\ in_capacity >= Len(input_buffer) + w.frames
        THEN IF read_ok
             THEN [polled EXCEPT !.ib = grown, !.icap = reserve(in_capacity, Len(grown)),
                                 !.rd = devRead \o read_samples(w.frames)]
             ELSE Fail(polled)
        ELSE polled

\* whether this turn of the loop reaches the availability query, and the read
input_polls == Len(input_buffer) < buffer_size(frames, in_channels)
input_reads(answers) ==
    /\ input_polls
    /\ wait_for_stream(answers).ok
    /\ wait_for_stream(answers).frames > 0
    /\ in_capacity >= Len(input_buffer) + wait_for_stream(answers).frames

InputCall ==
    /\ kind = "input" /\ CanCall
    /\ Finish(cur)

InputLoop ==
    /\ kind = "input" /\ pc = "loop"
    /\ Len(input_buffer) < buffer_size(frames, in_channels) => polls < MaxPolls
    /\ \E answers \in AnswersIf(input_polls, InAvail) :
          \E read_ok \in Outcomes(input_reads(answers)) :
              Finish(input_loop(answers, read_ok))

----------------------------------------------------------------------------
(* output::BlockingStream *)

\* write_stage that takes as many frames as the device has room for, queued or not
write_stage_takes_available(buffer, available_frames, channels) ==
    LET output_buffer_frames == Len(buffer) \div channels
        t == take_front(buffer, available_frames * channels)
    IN  IF available_frames > 0 /\ output_buffer_frames > 0
        THEN [write |-> TRUE, ok |-> t.ok, write_buffer |-> t.taken, rest |-> t.rest,
              write_frames |-> available_frames]
        ELSE [write |-> FALSE, ok |-> TRUE, write_buffer |-> <<>>, rest |-> buffer,
              write_frames |-> 0]

\* write_stage that counts the room of the device in samples, not in frames
write_stage_counts_samples(buffer, available_frames, channels) ==
    LET output_buffer_frames == Len(buffer) \div channels
        enough == output_buffer_frames >= available_frames
        t == IF enough THEN take_front(buffer, available_frames)
                       ELSE take_front(buffer, Len(buffer))
    IN  IF available_frames > 0 /\ output_buffer_frames > 0
        THEN [write |-> TRUE, ok |-> t.ok, write_buffer |-> t.taken, rest |-> t.rest,
              write_frames |-> IF enough THEN available_frames ELSE output_buffer_frames]
        ELSE [write |-> FALSE, ok |-> TRUE, write_buffer |-> <<>>, rest |-> buffer,
              write_frames |-> 0]

\* write_stage that forgets the samples it does not write
write_stage_drops_rest(buffer, available_frames, channels) ==
    LET output_buffer_frames == Len(buffer) \div channels
        enough == output_buffer_frames >= available_frames
        t == IF enough THEN take_front(buffer, available_frames * channels)
                       ELSE take_front(buffer, Len(buffer))
    IN  IF available_frames > 0 /\ output_buffer_frames > 0
        THEN [write |-> TRUE, ok |-> t.ok, write_buffer |-> t.taken, rest |-> <<>>,
              write_frames |-> IF enough THEN available_frames ELSE output_buffer_frames]
        ELSE [write |-> FALSE, ok |-> TRUE, write_buffer |-> <<>>, rest |-> buffer,
              write_frames |-> 0]

\* The write step shared by output.rs 281-297 and duplex.rs 410-426: the
\* buffer handed to stream.write and what stays queued.
write_stage(buffer, available_frames, channels) ==
    LET output_buffer_frames == Len(buffer) \div channels
        enough == output_buffer_frames >= available_frames
        t == IF enough THEN take_front(buffer, available_frames * channels)
                       ELSE take_front(buffer, Len(buffer))
    IN  IF available_frames > 0 /\ output_buffer_frames > 0
        THEN [write |-> TRUE, ok |-> t.ok, write_buffer |-> t.taken, rest |-> t.rest,
              write_frames |-> IF enough THEN available_frames ELSE output_buffer_frames]
        ELSE [write |-> FALSE, ok |-> TRUE, write_buffer |-> <<>>, rest |-> buffer,
              write_frames |-> 0]

\* an entry that appends the pending window and leaves it where it was
output_entry_keeps_window ==
    LET flushed == output_buffer \o user_buffer
    IN  IF Len(user_buffer) > 0
        THEN [cur EXCEPT !.ob = flushed, !.ocap = reserve(out_capacity, Len(flushed))]
        ELSE cur

\* output.rs 263-266: what the caller wrote last time joins the accumulator
output_entry ==
    LET flushed == output_buffer \o user_buffer
    IN  IF Len(user_buffer) > 0
        THEN [cur EXCEPT !.ob = flushed, !.ocap = reserve(out_capacity, Len(flushed)),
                         !.ub = <<>>]
        ELSE cur

\* output_loop that hands out a window whatever the accumulator holds
output_loop_out_always(answers, write_ok) ==
    LET bsize == buffer_size(frames, out_channels)
        w == wait_for_stream(answers)
        ws == write_stage(output_buffer, w.frames, out_channels)
        written == [cur EXCEPT !.ob = ws.rest, !.wr = devWritten \o ws.write_buffer]
    IN  IF ~w.ok THEN Fail(cur)
        ELSE IF ws.write /\ ~ws.ok THEN [cur EXCEPT !.ret = "panic"]
        ELSE IF ws.write /\ ~write_ok THEN Fail(written)
        ELSE IF TRUE
        THEN [written EXCEPT !.ub = out_window(user_buffer, bsize).buffer,
                             !.ow = outWindows \o out_window(user_buffer, bsize).slice,
                             !.ret = "Out",
                             !.data = out_window(user_buffer, bsize).slice]
        ELSE written

\* one turn of the loop of BlockingStream::next (output.rs 268-324)
output_loop(answers, write_ok) ==
    LET bsize == buffer_size(frames, out_channels)
        w == wait_for_stream(answers)
        ws == write_stage(output_buffer, w.frames, out_channels)
        written == [cur EXCEPT !.ob = ws.rest, !.wr = devWritten \o ws.write_buffer]
    IN  IF ~w.ok THEN Fail(cur)
        ELSE IF ws.write /\ ~ws.ok THEN [cur EXCEPT !.ret = "panic"]
        ELSE IF ws.write /\ ~write_ok THEN Fail(written)
        ELSE IF Len(ws.rest) <= out_capacity - bsize
        THEN [written EXCEPT !.ub = out_window(user_buffer, bsize).buffer,
                             !.ow = outWindows \o out_window(user_buffer, bsize).slice,
                             !.ret = "Out",
                             !.data = out_window(user_buffer, bsize).slice]
        ELSE written

OutputCall ==
    /\ kind = "output" /\ CanCall
    /\ Finish(output_entry)

OutputLoop ==
    /\ kind = "output" /\ pc = "loop"
    /\ \E answers \in Answers(AvailChoices) :
          \E write_ok \in Outcomes(wait_for_stream(answers).ok /\
                  write_stage(output_buffer, wait_for_stream(answers).frames,
                              out_channels).write) :
              Finish(output_loop(answers, write_ok))

----------------------------------------------------------------------------
(* duplex::BlockingStream *)

\* the part of next() before the loop without the check for an input event
duplex_entry_no_shortcut ==
    LET was_out == last_event = "Out"
        flushed == IF was_out /\ Len(user_buffer) > 0
                   THEN output_buffer \o user_buffer ELSE output_buffer
    IN  [cur EXCEPT !.ob = flushed, !.ocap = reserve(out_capacity, Len(flushed)),
                    !.ub = IF was_out THEN <<>> ELSE user_buffer]

\* duplex.rs 349-369: the part of next() before the loop
duplex_entry ==
    LET was_out == last_event = "Out"
        flushed == IF was_out /\ Len(user_buffer) > 0
                   THEN output_buffer \o user_buffer ELSE output_buffer
        target_in == buffer_size(frames, in_channels)
        t == take_front(input_buffer, target_in)
        base == [cur EXCEPT !.ob = flushed, !.ocap = reserve(out_capacity, Len(flushed)),
                            !.ub = IF was_out THEN <<>> ELSE user_buffer]
    IN  IF was_out /\ Len(input_buffer) >= target_in
        THEN IF t.ok THEN [base EXCEPT !.ib = t.rest, !.le = "In", !.ret = "In",
                                       !.data = t.taken]
                     ELSE [base EXCEPT !.ret = "panic"]
        ELSE base

\* duplex_loop that looks for an In event before an Out event
duplex_loop_in_first(in_answers, read_ok, out_answers, write_ok) ==
    LET target_in == buffer_size(frames, in_channels)
        target_out == buffer_size(frames, out_channels)
        wi == wait_for_stream(in_answers)
        reading == wi.frames > 0
        ib1 == IF reading THEN input_buffer \o read_samples(wi.frames) ELSE input_buffer
        r1 == [cur EXCEPT !.ib = ib1, !.icap = reserve(in_capacity, Len(ib1)),
                          !.rd = IF reading THEN devRead \o read_samples(wi.frames)
                                            ELSE devRead]
        wo == wait_for_stream(out_answers)
        ws == write_stage(output_buffer, wo.frames, out_channels)
        r2 == [r1 EXCEPT !.ob = ws.rest, !.wr = devWritten \o ws.write_buffer]
        t == take_front(ib1, target_in)
    IN  IF ~wi.ok THEN Fail(cur)
        ELSE IF reading /\ ~read_ok THEN Fail(cur)
        ELSE IF ~wo.ok THEN Fail(r1)
        ELSE IF ws.write /\ ~ws.ok THEN [r1 EXCEPT !.ret = "panic"]
        ELSE IF ws.write /\ ~write_ok THEN Fail(r2)
        ELSE IF Len(ib1) >= target_in
        THEN IF t.ok THEN [r2 EXCEPT !.ib = t.rest, !.le = "In", !.ret = "In",
                                     !.data = t.taken]
                     ELSE [r2 EXCEPT !.ret = "panic"]
        ELSE IF Len(ws.rest) <= out_capacity - target_out
        THEN [r2 EXCEPT !.ub = out_window(user_buffer, target_out).buffer,
                        !.ow = outWindows \o out_window(user_buffer, target_out).slice,
                        !.le = "Out", !.ret = "Out",
                        !.data = out_window(user_buffer, target_out).slice]
        ELSE [r2 EXCEPT !.le = "None"]

\* one turn of the loop of BlockingStream::next (duplex.rs 372-463)
duplex_loop(in_answers, read_ok, out_answers, write_ok) ==
    LET target_in == buffer_size(frames, in_channels)
        target_out == buffer_size(frames, out_channels)
        wi == wait_for_stream(in_answers)
        reading == wi.frames > 0
        ib1 == IF reading THEN input_buffer \o read_samples(wi.frames) ELSE input_buffer
        r1 == [cur EXCEPT !.ib = ib1, !.icap = reserve(in_capacity, Len(ib1)),
                          !.rd = IF reading THEN devRead \o read_samples(wi.frames)
                                            ELSE devRead]
        wo == wait_for_stream(out_answers)
        ws == write_stage(output_buffer, wo.frames, out_channels)
        r2 == [r1 EXCEPT !.ob = ws.rest, !.wr = devWritten \o ws.write_buffer]
        t == take_front(ib1, target_in)
    IN  IF ~wi.ok THEN Fail(cur)
        ELSE IF reading /\ ~read_ok THEN Fail(cur)
        ELSE IF ~wo.ok THEN Fail(r1)
        ELSE IF ws.write /\ ~ws.ok THEN [r1 EXCEPT !.ret = "panic"]
        ELSE IF ws.write /\ ~write_ok THEN Fail(r2)
        ELSE IF Len(ws.rest) <= out_capacity - target_out
        THEN [r2 EXCEPT !.ub = out_window(user_buffer, target_out).buffer,
                        !.ow = outWindows \o out_window(user_buffer, target_out).slice,
                        !.le = "Out", !.ret = "Out",
                        !.data = out_window(user_buffer, target_out).slice]
        ELSE IF Len(ib1) >= target_in
        THEN IF t.ok THEN [r2 EXCEPT !.ib = t.rest, !.le = "In", !.ret = "In",
                                     !.data = t.taken]
                     ELSE [r2 EXCEPT !.ret = "panic"]
        ELSE [r2 EXCEPT !.le = "None"]

\* whether a turn of the duplex loops (duplex.rs 372-433, event.rs 279-341)
\* issues the read, and whether it reaches the output availability query
duplex_reads(in_answers) ==
    wait_for_stream(in_answers).ok /\ wait_for_stream(in_answers).frames > 0
duplex_reaches_out(in_answers, read_ok) ==
    wait_for_stream(in_answers).ok /\ (duplex_reads(in_answers) => read_ok)

DuplexCall ==
    /\ kind = "duplex" /\ CanCall
    /\ Finish(duplex_entry)

DuplexLoop ==
    /\ kind = "duplex" /\ pc = "loop"
    /\ \E in_answers \in Answers(InAvail) :
       \E read_ok \in Outcomes(duplex_reads(in_answers)) :
       \E out_answers \in AnswersIf(duplex_reaches_out(in_answers, read_ok), AvailChoices) :
       \E write_ok \in Outcomes(duplex_reaches_out(in_answers, read_ok) /\
               wait_for_stream(out_answers).ok /\
               write_stage(output_buffer, wait_for_stream(out_answers).frames,
                    out_channels).write) :
          Finish(duplex_loop(in_answers, read_ok, out_answers, write_ok))

----------------------------------------------------------------------------
(* event::SoundStream *)

\* a split that hands out the last n elements and keeps the first ones
split_front_from_back(vec, n) ==
    [taken |-> SubSeq(vec, Len(vec) - n + 1, Len(vec)),
     rest |-> SubSeq(vec, 1, Len(vec) - n)]

\* event.rs 326-328 and 348-351: the first n elements leave the Vec, the
\* remaining ones are collected into a new Vec that replaces it.
split_front(vec, n) ==
    [taken |-> SubSeq(vec, 1, n), rest |-> SubSeq(vec, n + 1, Len(vec))]

\* a write step that never hands the device anything
event_write_stage_never_writes(buffer, available_out_frames, channels) ==
    [write |-> FALSE, write_buffer |-> <<>>, rest |-> buffer, write_frames |-> 0]

\* a write step that hands the device everything queued, room or not
event_write_stage_writes_all(buffer, available_out_frames, channels) ==
    LET output_buffer_frames == Len(buffer) \div channels
    IN  IF available_out_frames > 0 /\ output_buffer_frames > 0
        THEN [write |-> TRUE, write_buffer |-> buffer, rest |-> <<>>,
              write_frames |-> output_buffer_frames]
        ELSE [write |-> FALSE, write_buffer |-> <<>>, rest |-> buffer, write_frames |-> 0]

\* event.rs 318-335: the buffer handed to stream.write and what stays queued
event_write_stage(buffer, available_out_frames, channels) ==
    LET output_buffer_frames == Len(buffer) \div channels
        enough == output_buffer_frames >= available_out_frames
        s == split_front(buffer, available_out_frames * channels)
    IN  IF available_out_frames > 0 /\ output_buffer_frames > 0
        THEN IF enough
             THEN [write |-> TRUE, write_buffer |-> s.taken, rest |-> s.rest,
                   write_frames |-> available_out_frames]
             ELSE [write |-> TRUE, write_buffer |-> buffer, rest |-> <<>>,
                   write_frames |-> output_buffer_frames]
        ELSE [write |-> FALSE, write_buffer |-> <<>>, rest |-> buffer, write_frames |-> 0]

\* event.rs 380-381: nanoseconds to seconds, the quotient kept as a fraction
BILLION == 1000000000
in_seconds(diff_time) == [num |-> diff_time, den |-> BILLION]

\* an Update that measures but leaves last_time where it was
update_keeps_last_time(this_time) ==
    [diff_time_in_seconds |-> in_seconds(this_time - last_time),
     last_time |-> last_time]

\* event.rs 377-381: the Update arm, given what SteadyTime::now() reads
update(this_time) ==
    [diff_time_in_seconds |-> in_seconds(this_time - last_time),
     last_time |-> this_time]

\* an Out event that hands the turn straight back to In
after_Out_skips_Update == "In"

\* event.rs 343-385: the state after each event
after_In == "Out"
after_Out == "Update"
after_Update == "In"

\* an Out arm that yields however much is queued
out_is_due_always(buffer) == TRUE

\* event.rs 357-358: "Don't let the output_buffer fill any higher than the
\* given stream_settings."
out_is_due(buffer) == Len(buffer) <= buffer_size(frames, out_channels)

\* one turn of the loop of SoundStream::next (event.rs 279-387)
event_loop(in_answers, read_ok, out_answers, write_ok, this_time) ==
    LET target_samples == buffer_size(upd_frames, out_channels)
        wi == wait_for_stream(in_answers)
        reading == wi.frames > 0
        ib1 == IF reading THEN input_buffer \o read_samples(wi.frames) ELSE input_buffer
        r1 == [cur EXCEPT !.ib = ib1, !.icap = reserve(in_capacity, Len(ib1)),
                          !.rd = IF reading THEN devRead \o read_samples(wi.frames)
                                            ELSE devRead]
        wo == wait_for_stream(out_answers)
        ws == event_write_stage(output_buffer, wo.frames, out_channels)
        r2 == [r1 EXCEPT !.ob = ws.rest, !.wr = devWritten \o ws.write_buffer]
        s == split_front(ib1, target_samples)
        extended == out_window(ws.rest, target_samples)
    IN  IF ~wi.ok THEN Fail(cur)
        ELSE IF reading /\ ~read_ok THEN Fail(cur)
        ELSE IF ~wo.ok THEN Fail(r1)
        ELSE IF ws.write /\ ~write_ok THEN Fail(r2)
        ELSE IF next_event = "In"
        THEN IF Len(ib1) >= target_samples
             THEN [r2 EXCEPT !.ib = s.rest, !.ne = after_In, !.ret = "In", !.data = s.taken]
             ELSE r2
        ELSE IF next_event = "Out"
        THEN IF out_is_due(ws.rest)
             THEN [r2 EXCEPT !.ob = extended.buffer,
                             !.ocap = reserve(out_capacity, Len(extended.buffer)),
                             !.ow = outWindows \o extended.slice,
                             !.ne = after_Out, !.ret = "Out", !.data = extended.slice]
             ELSE r2
        ELSE [r2 EXCEPT !.ne = after_Update, !.ret = "Update",
                        !.data = <<update(this_time).diff_time_in_seconds>>,
                        !.lt = update(this_time).last_time,
                        !.cr = Append(clockReads, this_time)]

\* SteadyTime::now(): a monotonic clock, read only where the loop gets to
\* the Update arm
Readings(reads) == IF reads THEN last_time..MaxClock ELSE {last_time}

EventCall ==
    /\ kind = "event" /\ CanCall
    /\ Finish(cur)

EventLoop ==
    /\ kind = "event" /\ pc = "loop"
    /\ \E in_answers \in Answers(InAvail) :
       \E read_ok \in Outcomes(duplex_reads(in_answers)) :
       \E out_answers \in AnswersIf(duplex_reaches_out(in_answers, read_ok), AvailChoices) :
       \E write_ok \in Outcomes(duplex_reaches_out(in_answers, read_ok) /\
               wait_for_stream(out_answers).ok /\
               event_write_stage(output_buffer, wait_for_stream(out_answers).frames,
                    out_channels).write) :
       \E this_time \in Readings(event_loop(in_answers, read_ok, out_answers,
                                            write_ok, last_time).ret = "Update") :
          Finish(event_loop(in_answers, read_ok, out_answers, write_ok, this_time))

----------------------------------------------------------------------------
(* The caller, between two calls: it may write into the window the last    *)
(* Out event lent it (the tail of output_buffer for event::SoundStream,    *)
(* of user_buffer for the blocking streams).                               *)

fill_window(buf, w) ==
    SubSeq(buf, 1, Len(buf) - w) \o [i \in 1..w |-> 0 - (Len(outWindows) - w + i)]

Fill ==
    /\ pc = "idle" /\ window_live
    /\ LET w == Len(trace[Len(trace)].data)
       IN  /\ outWindows' = fill_window(outWindows, w)
           /\ IF kind = "event"
              THEN output_buffer' = fill_window(output_buffer, w) /\ UNCHANGED user_buffer
              ELSE user_buffer' = fill_window(user_buffer, w) /\ UNCHANGED output_buffer
    /\ window_live' = FALSE
    /\ UNCHANGED <<kind, frames, upd_frames, in_channels, out_channels, input_buffer,
                   in_capacity, out_capacity, next_event, last_event, pc, trace, devRead,
                   devWritten, reports, polls, last_time, clockReads, adapter,
                   builder, handle>>

----------------------------------------------------------------------------
(* event::SoundStreamBuilder *)

Settings(sample_hz, fr, ch) == [sample_hz |-> sample_hz, frames |-> fr, channels |-> ch]

\* a default with one channel
cd_quality_mono == Settings(44100, 256, 1)

\* Settings::cd_quality
cd_quality == Settings(44100, 256, 2)

\* Option<Settings> and Option<UpdateFrequency>
NoSettings == [some |-> FALSE, v |-> Settings(0, 0, 0)]
SomeSettings(st) == [some |-> TRUE, v |-> st]
NoRate == [mode |-> "None", n |-> 0]
Hz(hz) == [mode |-> "Hz", n |-> hz]
Frames(fr) == [mode |-> "Frames", n |-> fr]
PerBuffer(n) == [mode |-> "PerBuffer", n |-> n]

\* f32::round of the positive quotient num / den: halves round away from zero
round_div(num, den) == (2 * num + den) \div (2 * den)

\* `as Frames`: a float out of the range of u16 saturates
as_Frames(v) == IF v > 65535 THEN 65535 ELSE IF v < 0 THEN 0 ELSE v

\* the frequency-mode window cut off instead of rounded
hz_frames_truncates(stream_settings, hz) ==
    as_Frames((stream_settings.frames * stream_settings.sample_hz)
                  \div (hz * stream_settings.frames))

\* event.rs 104-109, in exact arithmetic, each quotient kept as a fraction:
\*   buffer_hz          = sample_hz / frames
\*   updates_per_buffer = hz / buffer_hz           = (hz * frames) / sample_hz
\*   frames / updates_per_buffer                   = (frames * sample_hz) / (hz * frames)
\* (frames >= 1 and hz >= 1 here; for the inputs the model draws the f32
\* computation rounds to the same integer.)
hz_frames(stream_settings, hz) ==
    LET buffer_hz_num == stream_settings.sample_hz
        buffer_hz_den == stream_settings.frames
        updates_num == hz * buffer_hz_den
        updates_den == buffer_hz_num
    IN  as_Frames(round_div(stream_settings.frames * updates_den, updates_num))

\* event.rs 101-110
frames_per_update(stream_settings, update_rate) ==
    IF update_rate.mode = "Frames" THEN update_rate.n
    ELSE IF update_rate.mode = "PerBuffer" THEN stream_settings.frames \div update_rate.n
    ELSE hz_frames(stream_settings, update_rate.n)

\* the assertion of run() with the upper half of the range let through
run_assert_up_to_frames(frames_per_update_, stream_frames) ==
    frames_per_update_ <= stream_frames

\* event.rs 112-115: the assertion of run()
run_assert(frames_per_update_, stream_frames) ==
    \/ frames_per_update_ = stream_frames
    \/ frames_per_update_ <= stream_frames \div 2

\* updates_per_buffer's assertion without the parity test
updates_per_buffer_assert_allows_odd(num) == num # 0

\* the assertions of the setters (event.rs 66, 73, 82)
update_hz_assert(hz) == hz > 0
update_frames_assert(fr) == fr > 0
updates_per_buffer_assert(num) == num # 0 /\ num % 2 = 0

\* the SoundStream value run() builds (event.rs 178-188)
NoStream == [exists |-> FALSE, stream_settings |-> Settings(0, 0, 0),
             update_settings |-> Settings(0, 0, 0), next_event |-> "In",
             is_closed |-> FALSE]
NewStream(stream_settings, update_settings) ==
    [exists |-> TRUE, stream_settings |-> stream_settings,
     update_settings |-> update_settings, next_event |-> "In", is_closed |-> FALSE]

\* SoundStream::new (event.rs 225-233).  The builder's own fields are
\* maybe_settings and maybe_update_rate; the rest records how far run() got
\* and, as history, the last method called (last) with its argument (arg)
\* and the locals of run(): update_rate, stream_settings.sample_hz,
\* stream_settings.frames and frames_per_update, and whether run() found
\* settings and an update rate to take (given_settings, given_rate).
NewBuilder == [phase |-> "building", last |-> "new", arg |-> 0, at |-> "",
               maybe_settings |-> NoSettings, maybe_update_rate |-> NoRate,
               given_settings |-> FALSE, given_rate |-> FALSE,
               update_rate |-> NoRate, device_sample_hz |-> 0, device_frames |-> 0,
               frames_per_update |-> 0,
               pa_initialized |-> FALSE, stream_open |-> FALSE,
               stream_started |-> FALSE, stream |-> NoStream]

\* what PortAudio answers during run(): each call succeeds or fails
PaBehaviours == [initialize : BOOLEAN, input_info : BOOLEAN, output_info : BOOLEAN,
                 open : BOOLEAN, start : BOOLEAN]
PaAllOk == [initialize |-> TRUE, input_info |-> TRUE, output_info |-> TRUE,
            open |-> TRUE, start |-> TRUE]

\* SoundStreamBuilder::run (event.rs 90-190)
run(b, pa) ==
    LET stream_settings == IF b.maybe_settings.some THEN b.maybe_settings.v ELSE cd_quality
        update_rate == IF b.maybe_update_rate.mode = "None" THEN PerBuffer(1)
                       ELSE b.maybe_update_rate
        fpu == frames_per_update(stream_settings, update_rate)
        update_settings == [stream_settings EXCEPT !.frames = fpu]
        taken == [b EXCEPT !.maybe_settings = NoSettings, !.maybe_update_rate = NoRate,
                           !.last = "run", !.arg = 0, !.update_rate = update_rate,
                           !.given_settings = b.maybe_settings.some,
                           !.given_rate = b.maybe_update_rate.mode # "None",
                           !.device_sample_hz = stream_settings.sample_hz,
                           !.device_frames = stream_settings.frames,
                           !.frames_per_update = fpu]
    IN  IF ~run_assert(fpu, stream_settings.frames)
        THEN [taken EXCEPT !.phase = "panicked", !.at = "assert"]
        ELSE IF ~pa.initialize
        THEN [taken EXCEPT !.phase = "failed", !.at = "initialize"]
        ELSE IF ~pa.input_info
        THEN [taken EXCEPT !.phase = "failed", !.at = "input_info", !.pa_initialized = TRUE]
        ELSE IF ~pa.output_info
        THEN [taken EXCEPT !.phase = "failed", !.at = "output_info", !.pa_initialized = TRUE]
        ELSE IF ~pa.open
        THEN [taken EXCEPT !.phase = "failed", !.at = "open", !.pa_initialized = TRUE]
        ELSE IF ~pa.start
        THEN [taken EXCEPT !.phase = "failed", !.at = "start", !.pa_initialized = TRUE,
                           !.stream_open = TRUE]
        ELSE [taken EXCEPT !.phase = "running", !.pa_initialized = TRUE,
                           !.stream_open = TRUE, !.stream_started = TRUE,
                           !.stream = NewStream(stream_settings, update_settings)]

\* the values the builder is tried with
SampleHzChoices == {4, 44100}
BuilderFrameChoices == {1, 2, 4, 6, 256}
SettingsChoices == {Settings(hz, fr, ch) : hz \in SampleHzChoices,
                        fr \in BuilderFrameChoices, ch \in ChannelChoices}
HzChoices == {0, 1, 2, 3, 7, 1000, 100000}
UpdateFrameChoices == {0, 1, 2, 3, 4, 128, 200, 256, 512}
PerBufferChoices == {0, 1, 2, 3, 4, 6, 8, 512}

BuilderIdle == builder.phase = "building" /\ "maybe_settings" \in DOMAIN builder

\* SoundStreamBuilder::settings
BuilderSettings ==
    /\ BuilderIdle
    /\ \E st \in SettingsChoices :
          builder' = [builder EXCEPT !.maybe_settings = SomeSettings(st),
                                     !.last = "settings", !.arg = 0]
    /\ UNCHANGED streamVars

\* SoundStreamBuilder::update_hz
BuilderUpdateHz ==
    /\ BuilderIdle
    /\ \E hz \in HzChoices :
          builder' = IF update_hz_assert(hz)
                     THEN [builder EXCEPT !.maybe_update_rate = Hz(hz),
                                          !.last = "update_hz", !.arg = hz]
                     ELSE [builder EXCEPT !.phase = "panicked",
                                          !.last = "update_hz", !.arg = hz]
    /\ UNCHANGED streamVars

\* SoundStreamBuilder::update_frames
BuilderUpdateFrames ==
    /\ BuilderIdle
    /\ \E fr \in UpdateFrameChoices :
          builder' = IF update_frames_assert(fr)
                     THEN [builder EXCEPT !.maybe_update_rate = Frames(fr),
                                          !.last = "update_frames", !.arg = fr]
                     ELSE [builder EXCEPT !.phase = "panicked",
                                          !.last = "update_frames", !.arg = fr]
    /\ UNCHANGED streamVars

\* SoundStreamBuilder::updates_per_buffer
BuilderUpdatesPerBuffer ==
    /\ BuilderIdle
    /\ \E num \in PerBufferChoices :
          builder' = IF updates_per_buffer_assert(num)
                     THEN [builder EXCEPT !.maybe_update_rate = PerBuffer(num),
                                          !.last = "updates_per_buffer", !.arg = num]
                     ELSE [builder EXCEPT !.phase = "panicked",
                                          !.last = "updates_per_buffer", !.arg = num]
    /\ UNCHANGED streamVars

\* SoundStreamBuilder::run
BuilderRun ==
    /\ BuilderIdle
    /\ \E pa \in PaBehaviours : builder' = run(builder, pa)
    /\ UNCHANGED streamVars

----------------------------------------------------------------------------
(* NonBlockingStream: the wrapper closures run_callback hands to PortAudio  *)
(* (input.rs 129-147, output.rs 130-147, duplex.rs 190-208).                *)

\* a narrowing that stops at the largest u16
as_u16_saturates(n) == IF n > 65535 THEN 65535 ELSE n

\* `as u16` of an unsigned integer keeps the low 16 bits
as_u16(n) == n % 65536

\* Option<f64>: maybe_last_time
NoTime == [some |-> FALSE, v |-> 0]
SomeTime(t) == [some |-> TRUE, v |-> t]
unwrap_or(opt, default) == IF opt.some THEN opt.v ELSE default

\* the delta measured from time zero on the first invocation
delta_time_from_zero(maybe_last_time, current_time) ==
    current_time - unwrap_or(maybe_last_time, 0)

\* let dt = time_info.current_time - maybe_last_time.unwrap_or(time_info.current_time)
delta_time(maybe_last_time, current_time) ==
    current_time - unwrap_or(maybe_last_time, current_time)

\* a match that stops the stream gracefully where the user asked to abort
StreamCallbackResult_abort_completes(result) ==
    IF result = "Continue" THEN "paContinue" ELSE "paComplete"

\* the match on the user function's result that ends each wrapper
StreamCallbackResult(result) ==
    CASE result = "Continue" -> "paContinue"
      [] result = "Complete" -> "paComplete"
      [] result = "Abort"    -> "paAbort"

\* What one run of a wrapper does: the closure's captured state afterwards,
\* the invocations of the user function it made, and what it returns.
\* hw holds the arguments PortAudio passed; result is what the user function
\* answers.

\* input.rs 129-147
input_wrapper(a, hw, result) ==
    LET settings == Settings(a.sample_hz, as_u16(hw.frames), as_u16(a.in_channels))
        dt == delta_time(a.maybe_last_time, hw.current_time)
    IN  [closure |-> [a EXCEPT !.maybe_last_time = SomeTime(hw.current_time)],
         invocations |-> <<[input |-> hw.input, in_settings |-> settings,
                            output |-> <<>>, out_settings |-> <<>>,
                            dt |-> dt, flags |-> hw.flags]>>,
         signal |-> StreamCallbackResult(result)]

\* output.rs 130-147
output_wrapper(a, hw, result) ==
    LET settings == Settings(a.sample_hz, as_u16(hw.frames), as_u16(a.out_channels))
        dt == delta_time(a.maybe_last_time, hw.current_time)
    IN  [closure |-> [a EXCEPT !.maybe_last_time = SomeTime(hw.current_time)],
         invocations |-> <<[input |-> <<>>, in_settings |-> <<>>,
                            output |-> hw.output, out_settings |-> settings,
                            dt |-> dt, flags |-> hw.flags]>>,
         signal |-> StreamCallbackResult(result)]

\* duplex.rs 190-208
duplex_wrapper(a, hw, result) ==
    LET in_settings == Settings(a.sample_hz, as_u16(hw.frames), as_u16(a.in_channels))
        out_settings == [in_settings EXCEPT !.channels = as_u16(a.out_channels)]
        dt == delta_time(a.maybe_last_time, hw.current_time)
    IN  [closure |-> [a EXCEPT !.maybe_last_time = SomeTime(hw.current_time)],
         invocations |-> <<[input |-> hw.input, in_settings |-> in_settings,
                            output |-> hw.output, out_settings |-> out_settings,
                            dt |-> dt, flags |-> hw.flags]>>,
         signal |-> StreamCallbackResult(result)]

\* the closure as run_callback builds it, with the stream opened and started
\* (calls is history: every hardware callback with what the wrapper did)
NewAdapter(k, sample_hz, fr, ich, och) ==
    [kind |-> k, sample_hz |-> sample_hz, frames |-> fr,
     in_channels |-> ich, out_channels |-> och,
     maybe_last_time |-> NoTime, active |-> TRUE, calls |-> <<>>]

\* The buffers PortAudio passes to the n-th callback: device memory, known
\* by which buffer it is and how many samples it holds.
DeviceBuffer(dir, n, len) == [dir |-> dir, n |-> n, len |-> len]

\* time_info.current_time: the device clock does not run backwards
CallbackTimes ==
    IF adapter.calls = <<>> THEN 0..MaxClock
    ELSE adapter.calls[Len(adapter.calls)].hw.current_time..MaxClock

CallbackFlagChoices == {"empty", "INPUT_OVERFLOW"}
CallbackResultChoices == {"Continue", "Complete", "Abort"}

\* PortAudio calls the closure while the stream is active: once per buffer,
\* until the closure answers something other than paContinue.
CallbackDue == adapter.active /\ Len(adapter.calls) < MaxCalls

\* the arguments of the next hardware callback
HardwareArgs(current_time, flags) ==
    [input |-> DeviceBuffer("input", Len(adapter.calls) + 1,
                            adapter.frames * adapter.in_channels),
     output |-> DeviceBuffer("output", Len(adapter.calls) + 1,
                             adapter.frames * adapter.out_channels),
     frames |-> adapter.frames, current_time |-> current_time, flags |-> flags]

\* the stream once the wrapper has returned w to PortAudio
Returned(w, hw, result) ==
    [w.closure EXCEPT !.active = (w.signal = "paContinue"),
                      !.calls = Append(@, [hw |-> hw, result |-> result,
                                           invocations |-> w.invocations,
                                           signal |-> w.signal])]

InputCallback ==
    /\ adapter.kind = "input" /\ CallbackDue
    /\ \E current_time \in CallbackTimes, flags \in CallbackFlagChoices,
          result \in CallbackResultChoices :
          LET hw == HardwareArgs(current_time, flags)
          IN  adapter' = Returned(input_wrapper(adapter, hw, result), hw, result)
    /\ UNCHANGED <<pollVars, builder>>

OutputCallback ==
    /\ adapter.kind = "output" /\ CallbackDue
    /\ \E current_time \in CallbackTimes, flags \in CallbackFlagChoices,
          result \in CallbackResultChoices :
          LET hw == HardwareArgs(current_time, flags)
          IN  adapter' = Returned(output_wrapper(adapter, hw, result), hw, result)
    /\ UNCHANGED <<pollVars, builder>>

DuplexCallback ==
    /\ adapter.kind = "duplex" /\ CallbackDue
    /\ \E current_time \in CallbackTimes, flags \in CallbackFlagChoices,
          result \in CallbackResultChoices :
          LET hw == HardwareArgs(current_time, flags)
          IN  adapter' = Returned(duplex_wrapper(adapter, hw, result), hw, result)
    /\ UNCHANGED <<pollVars, builder>>

----------------------------------------------------------------------------
(* stream::SoundStream, the builder of the input, output and duplex        *)
(* streams (stream/mod.rs 68-180, input.rs 60-192, output.rs 63-192,       *)
(* duplex.rs 101-260).                                                     *)

\* Option<f64>, Option<i32>
NoValue == [some |-> FALSE, v |-> 0]
SomeValue(v) == [some |-> TRUE, v |-> v]

\* what pa::device::get_info reports of the devices
DeviceInfoChoices == [max_input_channels : {1, 8}, max_output_channels : {1, 8},
                      default_sample_rate : {44100, 48000}]

\* channel_count.map(|n| min(n, max)).unwrap_or_else(|| min(2, max))
stream_channels(channel_count, max_channels) ==
    IF channel_count.some THEN Min(channel_count.v, max_channels)
    ELSE Min(2, max_channels)

\* input.rs 100-105: Frames(frames) => frames as u32,
\* Hz(hz) => (sample_hz as f32 / hz).round() as u32, None => 0
buffer_frames(maybe_buffer_frequency, sample_hz) ==
    IF maybe_buffer_frequency.mode = "Frames" THEN maybe_buffer_frequency.n
    ELSE IF maybe_buffer_frequency.mode = "Hz"
    THEN round_div(sample_hz, maybe_buffer_frequency.n)
    ELSE 0

\* Builder::unwrap_params (input.rs 63-108, output.rs 66-111, duplex.rs 104-170)
unwrap_params(b, info) ==
    LET sample_hz == IF b.maybe_sample_hz.some THEN b.maybe_sample_hz.v
                     ELSE info.default_sample_rate
    IN  [in_channels |-> stream_channels(b.in_channel_count, info.max_input_channels),
         out_channels |-> stream_channels(b.out_channel_count, info.max_output_channels),
         sample_hz |-> sample_hz,
         frames |-> buffer_frames(b.maybe_buffer_frequency, sample_hz)]

\* SoundStream::new() followed by input(..), output(..) or duplex(..) with
\* StreamParams::new(); module says which.  The fields after
\* out_channel_count record how far run() got, what get_info reported, the
\* frames per buffer the device was opened with and the BlockingStream built.
NoBlockingStream == [exists |-> FALSE, frames |-> 0, in_channels |-> 0,
                     out_channels |-> 0, sample_hz |-> 0, in_capacity |-> 0,
                     out_capacity |-> 0, is_closed |-> FALSE]
NewStreamBuilder(module) ==
    [phase |-> "building", module |-> module, at |-> "",
     maybe_buffer_frequency |-> NoRate, maybe_sample_hz |-> NoValue,
     in_channel_count |-> NoValue, out_channel_count |-> NoValue,
     pa_initialized |-> FALSE, stream_open |-> FALSE, stream_started |-> FALSE,
     info |-> [max_input_channels |-> 0, max_output_channels |-> 0,
               default_sample_rate |-> 0],
     device_frames |-> 0, stream |-> NoBlockingStream]

\* Builder::run (input.rs 161-192, output.rs 161-192, duplex.rs 222-260)
stream_run(b, info, pa) ==
    LET p == unwrap_params(b, info)
        has_in == b.module \in {"input", "duplex"}
        has_out == b.module \in {"output", "duplex"}
    IN  IF ~pa.initialize
        THEN [b EXCEPT !.phase = "failed", !.at = "initialize"]
        ELSE IF has_in /\ ~pa.input_info
        THEN [b EXCEPT !.phase = "failed", !.at = "input_info", !.pa_initialized = TRUE]
        ELSE IF has_out /\ ~pa.output_info
        THEN [b EXCEPT !.phase = "failed", !.at = "output_info", !.pa_initialized = TRUE]
        ELSE IF ~pa.open
        THEN [b EXCEPT !.phase = "failed", !.at = "open", !.pa_initialized = TRUE]
        ELSE IF ~pa.start
        THEN [b EXCEPT !.phase = "failed", !.at = "start", !.pa_initialized = TRUE,
                       !.stream_open = TRUE]
        ELSE [b EXCEPT !.phase = "running", !.pa_initialized = TRUE,
                       !.stream_open = TRUE, !.stream_started = TRUE,
                       !.info = info, !.device_frames = p.frames,
                       !.stream =
                           [exists |-> TRUE,
                            frames |-> as_u16(p.frames),
                            in_channels |-> IF has_in THEN as_u16(p.in_channels) ELSE 0,
                            out_channels |-> IF has_out THEN as_u16(p.out_channels) ELSE 0,
                            sample_hz |-> p.sample_hz,
                            in_capacity |-> IF has_in
                                            THEN buffer_len(p.frames, p.in_channels) ELSE 0,
                            out_capacity |-> IF has_out
                                             THEN buffer_len(p.frames, p.out_channels) ELSE 0,
                            is_closed |-> FALSE]]

\* the values the stream builder is tried with
StreamHzChoices == {0, 1, 7, 1000}
StreamSampleHzChoices == SampleHzChoices \cup {100000}
StreamFrameChoices == {0, 1, 256, 512}
StreamChannelChoices == {1, 2, 4}

StreamBuilderIdle == builder.phase = "building" /\ "module" \in DOMAIN builder

\* SoundStream::sample_hz
StreamBuilderSampleHz ==
    /\ StreamBuilderIdle
    /\ \E hz \in StreamSampleHzChoices :
          builder' = [builder EXCEPT !.maybe_sample_hz = SomeValue(hz)]
    /\ UNCHANGED streamVars

\* SoundStream::buffer_hz
StreamBuilderBufferHz ==
    /\ StreamBuilderIdle
    /\ \E hz \in StreamHzChoices :
          builder' = IF update_hz_assert(hz)
                     THEN [builder EXCEPT !.maybe_buffer_frequency = Hz(hz)]
                     ELSE [builder EXCEPT !.phase = "panicked", !.at = "buffer_hz"]
    /\ UNCHANGED streamVars

\* SoundStream::frames_per_buffer
StreamBuilderFramesPerBuffer ==
    /\ StreamBuilderIdle
    /\ \E fr \in StreamFrameChoices :
          builder' = [builder EXCEPT !.maybe_buffer_frequency = Frames(fr)]
    /\ UNCHANGED streamVars

\* StreamParams::channels, on the parameters of either side
StreamBuilderChannels ==
    /\ StreamBuilderIdle
    /\ \E ch \in StreamChannelChoices :
          \/ /\ builder.module \in {"input", "duplex"}
             /\ builder' = [builder EXCEPT !.in_channel_count = SomeValue(ch)]
          \/ /\ builder.module \in {"output", "duplex"}
             /\ builder' = [builder EXCEPT !.out_channel_count = SomeValue(ch)]
    /\ UNCHANGED streamVars

\* Builder::run
StreamBuilderRun ==
    /\ StreamBuilderIdle
    /\ \E info \in DeviceInfoChoices, pa \in PaBehaviours :
          builder' = stream_run(builder, info, pa)
    /\ UNCHANGED streamVars

----------------------------------------------------------------------------
(* close() and Drop, the same in every stream type (event.rs 235-257,      *)
(* input.rs 197-241, output.rs 197-241, duplex.rs 269-325).                *)

\* the handle as run() / run_callback() returns it: is_closed: false
NewHandle == [is_closed |-> FALSE, dropped |-> FALSE, closes |-> <<>>,
              pa_calls |-> <<>>, printed |-> 0]

\* the calls one close sequence makes: stream.close(), and pa::terminate()
\* only when stream.close() returned Ok
close_calls(by, close_ok, terminate_ok) ==
    <<[by |-> by, op |-> "stream.close", ok |-> close_ok]>> \o
    (IF close_ok THEN <<[by |-> by, op |-> "pa::terminate", ok |-> terminate_ok]>>
                 ELSE <<>>)

\* close() that marks the stream closed only when the whole sequence succeeded
close_marks_on_success(h, by, close_ok, terminate_ok) ==
    [h EXCEPT !.is_closed = h.is_closed \/ (close_ok /\ terminate_ok),
              !.pa_calls = h.pa_calls \o close_calls(by, close_ok, terminate_ok),
              !.closes = Append(h.closes, [by |-> by, at |-> Len(trace),
                                           ok |-> close_ok /\ terminate_ok])]

\* close(&mut self): self.is_closed = true; try!(self.stream.close());
\* try!(pa::terminate()); Ok(())
close(h, by, close_ok, terminate_ok) ==
    [h EXCEPT !.is_closed = TRUE,
              !.pa_calls = h.pa_calls \o close_calls(by, close_ok, terminate_ok),
              !.closes = Append(h.closes, [by |-> by, at |-> Len(trace),
                                           ok |-> close_ok /\ terminate_ok])]

\* drop that runs the close sequence whatever is_closed says
drop_always_closes(h, close_ok, terminate_ok) ==
    LET c == close(h, "drop", close_ok, terminate_ok)
    IN  [c EXCEPT !.dropped = TRUE,
                  !.printed = IF close_ok /\ terminate_ok THEN @ ELSE @ + 1]

\* Drop::drop: if !self.is_closed { if let Err(err) = self.close() { println!(..) } }
drop(h, close_ok, terminate_ok) ==
    LET c == close(h, "drop", close_ok, terminate_ok)
    IN  IF ~h.is_closed
        THEN [c EXCEPT !.dropped = TRUE,
                       !.printed = IF close_ok /\ terminate_ok THEN @ ELSE @ + 1]
        ELSE [h EXCEPT !.dropped = TRUE]

\* the caller calls close() between two next() calls
Close ==
    /\ kind # "none" /\ pc = "idle" /\ ~handle.dropped
    /\ Len(handle.closes) < MaxCloses
    /\ \E close_ok \in BOOLEAN : \E terminate_ok \in Outcomes(close_ok) :
          handle' = close(handle, "close", close_ok, terminate_ok)
    /\ UNCHANGED <<kind, frames, upd_frames, in_channels, out_channels, input_buffer,
                   in_capacity, output_buffer, out_capacity, user_buffer, next_event,
                   last_event, pc, window_live, trace, devRead, devWritten,
                   outWindows, reports, polls, last_time, clockReads, adapter,
                   builder>>

\* the handle goes out of scope, between two next() calls or while a panic
\* inside next() unwinds
Drop ==
    /\ kind # "none" /\ pc \in {"idle", "panic"} /\ ~handle.dropped
    /\ \E close_ok \in Outcomes(~handle.is_closed) :
       \E terminate_ok \in Outcomes(~handle.is_closed /\ close_ok) :
          handle' = drop(handle, close_ok, terminate_ok)
    /\ UNCHANGED <<kind, frames, upd_frames, in_channels, out_channels, input_buffer,
                   in_capacity, output_buffer, out_capacity, user_buffer, next_event,
                   last_event, pc, window_live, trace, devRead, devWritten,
                   outWindows, reports, polls, last_time, clockReads, adapter,
                   builder>>

----------------------------------------------------------------------------
(* The stream as run() returns it. *)

NoBuilder == [phase |-> "none"]
NoAdapter == [kind |-> "none"]

\* the stream types without a clock
NoClock == last_time = 0 /\ clockReads = <<>>

\* last_time: SteadyTime::now().0 (event.rs 180)
ClockStart(t) == last_time = t /\ clockReads = <<t>>

StreamStart(k, fr, uf, ich, och, icap, ocap) ==
    /\ kind = k
    /\ frames = fr
    /\ upd_frames = uf
    /\ in_channels = ich
    /\ out_channels = och
    /\ input_buffer = <<>>
    /\ in_capacity = icap
    /\ output_buffer = <<>>
    /\ out_capacity = ocap
    /\ user_buffer = <<>>
    /\ next_event = "In"
    /\ last_event = "None"
    /\ pc = "idle"
    /\ window_live = FALSE
    /\ trace = <<>>
    /\ devRead = <<>>
    /\ devWritten = <<>>
    /\ outWindows = <<>>
    /\ reports = 0
    /\ polls = 0
    /\ handle = NewHandle

\* the fields of the three BlockingStream types (input.rs 180-191,
\* output.rs 178-191, duplex.rs 239-259)
BlockingStart(k, fr, ich, och) ==
    /\ StreamStart(k, fr, fr, ich, och, buffer_len(fr, ich), buffer_len(fr, och))
    /\ NoClock

InitInput ==
    /\ \E fr \in FrameChoices, ch \in ChannelChoices : BlockingStart("input", fr, ch, ch)
    /\ builder = NoBuilder
    /\ adapter = NoAdapter

InitOutput ==
    /\ \E fr \in FrameChoices, ch \in ChannelChoices : BlockingStart("output", fr, ch, ch)
    /\ builder = NoBuilder
    /\ adapter = NoAdapter

InitDuplex ==
    /\ \E fr \in FrameChoices, ich \in ChannelChoices, och \in ChannelChoices :
          BlockingStart("duplex", fr, ich, och)
    /\ builder = NoBuilder
    /\ adapter = NoAdapter

\* the settings and cadences event::SoundStream is started with
EventSettingsChoices == {Settings(4, fr, ch) : fr \in {1, 2}, ch \in ChannelChoices}
EventRateChoices == {NoRate, Hz(1), Hz(2), Hz(4), Hz(1000), Frames(1), Frames(2),
                     PerBuffer(2), PerBuffer(4)}

\* event::SoundStream as a successful run() leaves it (event.rs 178-188),
\* the clock reading one of start_times at that moment
EventStart(start_times) ==
    /\ \E st \in EventSettingsChoices, rate \in EventRateChoices,
          t \in start_times :
          LET b == run([NewBuilder EXCEPT !.maybe_settings = SomeSettings(st),
                                          !.maybe_update_rate = rate], PaAllOk)
              size == buffer_size(st.frames, st.channels)
          IN  /\ b.phase = "running"
              /\ StreamStart("event", b.stream.stream_settings.frames,
                             b.stream.update_settings.frames,
                             st.channels, st.channels, size, size)
              /\ ClockStart(t)
    /\ builder = NoBuilder
    /\ adapter = NoAdapter

InitEvent == EventStart({1})

Init == InitInput \/ InitOutput \/ InitDuplex \/ InitEvent

Next ==
    \/ InputCall \/ InputLoop
    \/ OutputCall \/ OutputLoop
    \/ DuplexCall \/ DuplexLoop
    \/ EventCall \/ EventLoop
    \/ Fill

Spec == Init /\ [][Next]_vars

\* input::BlockingStream against a device that has exactly one window of
\* frames ready on every poll; only a failure answers otherwise.
WindowLoop ==
    /\ kind = "input" /\ pc = "loop"
    /\ input_polls => polls < MaxPolls
    /\ \E answers \in AnswersIf(input_polls, {frames}) :
          \E read_ok \in Outcomes(input_reads(answers)) :
              Finish(input_loop(answers, read_ok))

InitWindowDevice ==
    /\ \E fr \in FrameChoices \ {0}, ch \in ChannelChoices :
          BlockingStart("input", fr, ch, ch)
    /\ builder = NoBuilder
    /\ adapter = NoAdapter

NextWindowDevice == InputCall \/ WindowLoop

SpecWindowDevice == InitWindowDevice /\ [][NextWindowDevice]_vars

\* input:: and duplex::BlockingStream against a device whose input side
\* has either nothing ready or, once, a burst of MINIMUM_BUFFER_RESERVATION
\* frames: what has piled up in the device while the caller was away.  Its
\* output side has no room.
BurstChoices == {0, MINIMUM_BUFFER_RESERVATION}
InBurst == {n \in BurstChoices : Len(devRead) + n * in_channels
                                     <= MINIMUM_BUFFER_RESERVATION * in_channels}

BurstInputLoop ==
    /\ kind = "input" /\ pc = "loop"
    /\ input_polls => polls < MaxPolls
    /\ \E answers \in AnswersIf(input_polls, InBurst) :
          \E read_ok \in Outcomes(input_reads(answers)) :
              Finish(input_loop(answers, read_ok))

BurstDuplexLoop ==
    /\ kind = "duplex" /\ pc = "loop"
    /\ \E in_answers \in Answers(InBurst) :
       \E read_ok \in Outcomes(duplex_reads(in_answers)) :
       \E out_answers \in AnswersIf(duplex_reaches_out(in_answers, read_ok), {0}) :
          Finish(duplex_loop(in_answers, read_ok, out_answers, TRUE))

InitBurst ==
    /\ \/ \E fr \in FrameChoices \ {0}, ch \in ChannelChoices :
              BlockingStart("input", fr, ch, ch)
       \/ \E fr \in FrameChoices \ {0}, ich \in ChannelChoices :
              BlockingStart("duplex", fr, ich, 1)
    /\ builder = NoBuilder
    /\ adapter = NoAdapter

NextBurst ==
    \/ InputCall \/ BurstInputLoop
    \/ DuplexCall \/ BurstDuplexLoop
    \/ Fill

SpecBurst == InitBurst /\ [][NextBurst]_vars

\* event::SoundStream over several rounds of In, Out, Update, against a
\* device that keeps pace: one user window of input ready on every turn
\* while the run lasts, room for one device buffer of output, and either of
\* them may fail.
PacedIn == IF Len(devRead) + upd_frames * in_channels <= MaxRead
           THEN {upd_frames} ELSE {0}

TimedCall ==
    /\ kind = "event" /\ pc = "idle" /\ Len(trace) < MaxTimedCalls
    /\ Finish(cur)

TimedLoop ==
    /\ kind = "event" /\ pc = "loop"
    /\ \E in_answers \in Answers(PacedIn) :
       \E read_ok \in Outcomes(duplex_reads(in_answers)) :
       \E out_answers \in AnswersIf(duplex_reaches_out(in_answers, read_ok), {frames}) :
       \E write_ok \in Outcomes(duplex_reaches_out(in_answers, read_ok) /\
               wait_for_stream(out_answers).ok /\
               event_write_stage(output_buffer, wait_for_stream(out_answers).frames,
                    out_channels).write) :
       \E this_time \in Readings(event_loop(in_answers, read_ok, out_answers,
                                            write_ok, last_time).ret = "Update") :
          Finish(event_loop(in_answers, read_ok, out_answers, write_ok, this_time))

InitTimed == EventStart(0..MaxClock)

NextTimed == TimedCall \/ TimedLoop

SpecTimed == InitTimed /\ [][NextTimed]_vars

\* The streams with an output side against a device that never fails,
\* delivers input at the stream's pace, and whose output side has room for
\* a device buffer on some turns, for a single frame or for nothing on
\* others: what the caller queues can pile up.
Settled(ns) == {<<FramesAnswer(n)>> : n \in ns}

StalledCall ==
    /\ kind = "event" /\ pc = "idle" /\ Len(trace) < MaxStalledCalls
    /\ Finish(cur)

StalledLoop ==
    /\ kind = "event" /\ pc = "loop"
    /\ \E in_answers \in Settled(PacedIn), out_answers \in Settled({0, 1, frames}) :
       \E this_time \in Readings(event_loop(in_answers, TRUE, out_answers,
                                            TRUE, last_time).ret = "Update") :
          Finish(event_loop(in_answers, TRUE, out_answers, TRUE, this_time))

StalledOutputCall ==
    /\ kind = "output" /\ pc = "idle" /\ Len(trace) < MaxStalledCalls
    /\ Finish(output_entry)

StalledOutputLoop ==
    /\ kind = "output" /\ pc = "loop"
    /\ \E answers \in Settled({0, 1, frames}) : Finish(output_loop(answers, TRUE))

StalledDuplexCall ==
    /\ kind = "duplex" /\ pc = "idle" /\ Len(trace) < MaxStalledCalls
    /\ Finish(duplex_entry)

StalledDuplexLoop ==
    /\ kind = "duplex" /\ pc = "loop"
    /\ \E in_answers \in Settled(PacedIn), out_answers \in Settled({0, 1, frames}) :
          Finish(duplex_loop(in_answers, TRUE, out_answers, TRUE))

InitStalled == EventStart({1}) \/ InitOutput \/ InitDuplex

NextStalled ==
    \/ StalledCall \/ StalledLoop
    \/ StalledOutputCall \/ StalledOutputLoop
    \/ StalledDuplexCall \/ StalledDuplexLoop
    \/ Fill

SpecStalled == InitStalled /\ [][NextStalled]_vars

\* The four iterator streams with the caller closing and dropping the
\* handle along the way.  next() stays callable on a closed handle; what
\* the closed device then answers is left open, as for an open one.  The
\* streams with two sides run against a device that keeps pace or fails.
CanCallClosing == pc = "idle" /\ ~handle.dropped /\ Len(trace) < MaxClosingCalls

ClosingInputCall ==
    /\ kind = "input" /\ CanCallClosing
    /\ Finish(cur)

ClosingOutputCall ==
    /\ kind = "output" /\ CanCallClosing
    /\ Finish(output_entry)

ClosingDuplexCall ==
    /\ kind = "duplex" /\ CanCallClosing
    /\ Finish(duplex_entry)

ClosingDuplexLoop ==
    /\ kind = "duplex" /\ pc = "loop"
    /\ \E in_answers \in Answers(PacedIn) :
       \E read_ok \in Outcomes(duplex_reads(in_answers)) :
       \E out_answers \in AnswersIf(duplex_reaches_out(in_answers, read_ok), {frames}) :
       \E write_ok \in Outcomes(duplex_reaches_out(in_answers, read_ok) /\
               wait_for_stream(out_answers).ok /\
               write_stage(output_buffer, wait_for_stream(out_answers).frames,
                    out_channels).write) :
          Finish(duplex_loop(in_answers, read_ok, out_answers, write_ok))

ClosingEventCall ==
    /\ kind = "event" /\ CanCallClosing
    /\ Finish(cur)

InitClosing == Init

NextClosing ==
    \/ ClosingInputCall \/ InputLoop
    \/ ClosingOutputCall \/ OutputLoop
    \/ ClosingDuplexCall \/ ClosingDuplexLoop
    \/ ClosingEventCall \/ TimedLoop
    \/ Close
    \/ Drop

SpecClosing == InitClosing /\ [][NextClosing]_vars

\* output:: and duplex::BlockingStream with a window of half the minimum
\* reservation, against a device that never fails, has no input ready, and
\* whose output side has room for a whole device buffer or for nothing:
\* two windows fill the output accumulator.
SaturatingFrames == MINIMUM_BUFFER_RESERVATION \div 2

SaturatingOutputLoop ==
    /\ kind = "output" /\ pc = "loop"
    /\ \E answers \in Settled({0, frames}) : Finish(output_loop(answers, TRUE))

SaturatingDuplexLoop ==
    /\ kind = "duplex" /\ pc = "loop"
    /\ \E in_answers \in Settled({0}), out_answers \in Settled({0, frames}) :
          Finish(duplex_loop(in_answers, TRUE, out_answers, TRUE))

InitSaturating ==
    /\ \/ \E ch \in ChannelChoices : BlockingStart("output", SaturatingFrames, ch, ch)
       \/ \E och \in ChannelChoices : BlockingStart("duplex", SaturatingFrames, 1, och)
    /\ builder = NoBuilder
    /\ adapter = NoAdapter

NextSaturating ==
    \/ StalledOutputCall \/ SaturatingOutputLoop
    \/ StalledDuplexCall \/ SaturatingDuplexLoop
    \/ Fill

SpecSaturating == InitSaturating /\ [][NextSaturating]_vars

\* duplex::BlockingStream with a window of half the minimum reservation,
\* against a device whose input side has nothing ready or a whole window,
\* up to MaxStarvedWindows of them, whose output side has room for a whole
\* device buffer or for nothing, and whose availability queries may fail:
\* input can pile up while the output accumulator is full.  The caller
\* leaves the windows it is handed as they are.
StarvedIn == IF Len(devRead) + frames * in_channels <= MaxStarvedWindows * frames * in_channels
             THEN {0, frames} ELSE {0}
StarvedAnswers(ns) == Settled(ns) \cup {<<ErrAnswer>>}

StarvedDuplexCall ==
    /\ kind = "duplex" /\ pc = "idle" /\ Len(trace) < MaxStarvedCalls
    /\ Finish(duplex_entry)

StarvedDuplexLoop ==
    /\ kind = "duplex" /\ pc = "loop"
    /\ \E in_answers \in StarvedAnswers(StarvedIn) :
       \E out_answers \in IF wait_for_stream(in_answers).ok
                          THEN StarvedAnswers({0, frames}) ELSE {<<ErrAnswer>>} :
          Finish(duplex_loop(in_answers, TRUE, out_answers, TRUE))

InitStarved ==
    /\ BlockingStart("duplex", SaturatingFrames, 1, 1)
    /\ builder = NoBuilder
    /\ adapter = NoAdapter

NextStarved == StarvedDuplexCall \/ StarvedDuplexLoop

SpecStarved == InitStarved /\ [][NextStarved]_vars

\* input::BlockingStream against a device that never fails and always has
\* frames ready: up to three at first, and, once MaxBeforeBacklog samples
\* have been read, a backlog of more frames than the accumulator was
\* reserved for, which stays until it is read.  The polls are not counted
\* here, so a turn of the loop that reads nothing leaves the state as it
\* was.  The thread inside next() keeps running the loop.
BacklogFrames == MINIMUM_BUFFER_RESERVATION + 1
BackpressureIn == IF Len(devRead) < MaxBeforeBacklog THEN {1, 2, 3} ELSE {BacklogFrames}

BackpressureInputCall ==
    /\ kind = "input" /\ pc = "idle"
    /\ Finish(cur)

BackpressureInputLoop ==
    /\ kind = "input" /\ pc = "loop"
    /\ \E answers \in Settled(BackpressureIn) :
          Finish([input_loop(answers, TRUE) EXCEPT !.polls = polls])

InitBackpressure == InitWindowDevice

NextBackpressure == BackpressureInputCall \/ BackpressureInputLoop

SpecBackpressure ==
    /\ InitBackpressure /\ [][NextBackpressure]_vars
    /\ WF_vars(BackpressureInputLoop)

\* event::SoundStream against a fair device: no call fails; each turn of
\* the loop the input side has a frame ready or none (none once a window
\* is buffered), the output side room for a frame or none.  The thread
\* inside next() keeps running the loop, and time and again the device
\* has a frame to read, and time and again room to write.
FairIn == IF Len(input_buffer) < buffer_size(upd_frames, in_channels) THEN {0, 1} ELSE {0}
FairOut == {0, 1}

FairCall ==
    /\ kind = "event" /\ pc = "idle" /\ Len(trace) < MaxFairCalls
    /\ Finish(cur)

\* the turn of the loop in which the device answers Frames(available_in)
\* and Frames(available_out)
FairTurn(available_in, available_out) ==
    /\ kind = "event" /\ pc = "loop"
    /\ available_in \in FairIn
    /\ LET in_answers == <<FramesAnswer(available_in)>>
           out_answers == <<FramesAnswer(available_out)>>
       IN  \E this_time \in Readings(event_loop(in_answers, TRUE, out_answers,
                                                TRUE, last_time).ret = "Update") :
              Finish(event_loop(in_answers, TRUE, out_answers, TRUE, this_time))

FairLoop == \E available_in \in FairIn, available_out \in FairOut :
                FairTurn(available_in, available_out)

\* the turns in which the device has a frame to read, and room to write
FairReadTurn == \E available_out \in FairOut : FairTurn(1, available_out)
FairWriteTurn == \E available_in \in FairIn : FairTurn(available_in, 1)

InitFair == InitEvent

NextFair == FairCall \/ FairLoop

SpecFair ==
    /\ InitFair /\ [][NextFair]_vars
    /\ WF_vars(FairReadTurn)
    /\ WF_vars(FairWriteTurn)

\* wait_for_stream on its own, one availability query per step.  Each call
\* is recorded in trace with the answers the device has given it so far
\* and, once it has returned, with what it returned; while it is still
\* asking its type is "pending".
WaitCall ==
    /\ kind = "wait_for_stream" /\ pc = "idle" /\ Len(trace) < MaxWaits
    /\ pc' = "loop"
    /\ trace' = Append(trace, [type |-> "pending", data |-> <<>>, answers |-> <<>>])
    /\ UNCHANGED <<kind, frames, upd_frames, in_channels, out_channels, input_buffer,
                   in_capacity, output_buffer, out_capacity, user_buffer, next_event,
                   last_event, window_live, devRead, devWritten, outWindows, reports,
                   polls, last_time, clockReads, adapter, builder, handle>>

\* one turn of its loop: f() answers a; a flagged answer goes round again,
\* any other ends the call
WaitQuery ==
    /\ kind = "wait_for_stream" /\ pc = "loop"
    /\ \E a \in {FramesAnswer(n) : n \in AvailChoices} \cup {ErrAnswer, FlaggedAnswer} :
          LET seen == Append(trace[Len(trace)].answers, a)
              w == wait_for_stream(seen)
          IN  /\ a = FlaggedAnswer => Len(seen) <= MaxOverflows
              /\ IF a = FlaggedAnswer
                 THEN /\ pc' = "loop"
                      /\ trace' = [trace EXCEPT ![Len(trace)].answers = seen]
                 ELSE /\ pc' = "idle"
                      /\ trace' = [trace EXCEPT ![Len(trace)] =
                                      [type |-> IF w.ok THEN "Ok" ELSE "Err",
                                       data |-> IF w.ok THEN <<w.frames>> ELSE <<>>,
                                       answers |-> seen]]
    /\ UNCHANGED <<kind, frames, upd_frames, in_channels, out_channels, input_buffer,
                   in_capacity, output_buffer, out_capacity, user_buffer, next_event,
                   last_event, window_live, devRead, devWritten, outWindows, reports,
                   polls, last_time, clockReads, adapter, builder, handle>>

InitWait ==
    /\ StreamStart("wait_for_stream", 0, 0, 0, 0, 0, 0)
    /\ NoClock
    /\ builder = NoBuilder
    /\ adapter = NoAdapter

NextWait == WaitCall \/ WaitQuery

SpecWait == InitWait /\ [][NextWait]_vars

\* The two duplex drivers side by side on one device, with the caller of
\* the examples, which copies the input buffer straight to the output:
\* duplex::BlockingStream consumed as in examples/duplex_blocking.rs and
\* the run_callback closure with the callback of
\* examples/duplex_non_blocking.rs.  The device never fails; the n-th input
\* buffer it hands to the callback holds the same samples the n-th read of
\* one buffer returns.

\* examples/duplex_blocking.rs: intermediate, the input of the last In event
intermediate ==
    LET ins == SelectSeq(trace, LAMBDA e : e.type = "In")
    IN  IF ins = <<>> THEN <<>> ELSE ins[Len(ins)].data

\* for (output_sample, sample) in output.iter_mut().zip(intermediate.iter())
\*     { *output_sample = *sample; }
copy_to_window(buf, w, source) ==
    [i \in 1..Len(buf) |->
        IF i > Len(buf) - w /\ i - (Len(buf) - w) <= Len(source)
        THEN source[i - (Len(buf) - w)] ELSE buf[i]]

\* the body of the caller's loop for an Out event
PassthroughOut ==
    /\ kind = "duplex" /\ pc = "idle" /\ window_live
    /\ LET w == Len(trace[Len(trace)].data)
       IN  /\ outWindows' = copy_to_window(outWindows, w, intermediate)
           /\ user_buffer' = copy_to_window(user_buffer, w, intermediate)
    /\ window_live' = FALSE
    /\ UNCHANGED <<kind, frames, upd_frames, in_channels, out_channels, input_buffer,
                   in_capacity, output_buffer, out_capacity, next_event, last_event,
                   pc, trace, devRead, devWritten, reports, polls, last_time,
                   clockReads, adapter, builder, handle>>

\* the for loop asks for the next event once the body has run
PassthroughCall ==
    /\ kind = "duplex" /\ CanCall /\ ~window_live
    /\ Finish(duplex_entry)

\* the samples of the n-th device input buffer of len samples
device_input(n, len) == [i \in 1..len |-> (n - 1) * len + i]

\* PortAudio invokes the closure; the callback copies input to output and
\* answers Continue
PassthroughCallback ==
    /\ adapter.kind = "duplex" /\ CallbackDue
    /\ \E current_time \in CallbackTimes :
          LET hw == HardwareArgs(current_time, "empty")
          IN  adapter' = Returned(duplex_wrapper(adapter, hw, "Continue"), hw, "Continue")
    /\ UNCHANGED <<pollVars, builder>>

InitPassthrough ==
    /\ \E fr \in FrameChoices \ {0}, ch \in ChannelChoices :
          /\ BlockingStart("duplex", fr, ch, ch)
          /\ adapter = NewAdapter("duplex", 44100, fr, ch, ch)
    /\ builder = NoBuilder

NextPassthrough ==
    \/ PassthroughCall
    \/ StalledDuplexLoop
    \/ PassthroughOut
    \/ PassthroughCallback

SpecPassthrough == InitPassthrough /\ [][NextPassthrough]_vars

\* utils::take_front on its own: a queue of up to MaxQueue samples, and
\* calls that take up to one element more than the longest queue holds.
\* Each call is recorded in trace with its argument n, the queue before and
\* after it, and what it returned; a panic ends the run.
QueueSamples == {1, 2}
QueueChoices == UNION {[1..k -> QueueSamples] : k \in 0..MaxQueue}

TakeFront ==
    /\ kind = "take_front" /\ pc = "idle" /\ Len(trace) < MaxTakes
    /\ \E n \in 0..(MaxQueue + 1) :
          LET t == take_front(input_buffer, n)
          IN  /\ input_buffer' = t.rest
              /\ pc' = IF t.ok THEN "idle" ELSE "panic"
              /\ trace' = Append(trace, [type |-> IF t.ok THEN "Taken" ELSE "panic",
                                         data |-> IF t.ok THEN t.taken ELSE <<>>,
                                         n |-> n, before |-> input_buffer,
                                         after |-> t.rest])
    /\ UNCHANGED <<kind, frames, upd_frames, in_channels, out_channels, in_capacity,
                   output_buffer, out_capacity, user_buffer, next_event, last_event,
                   window_live, devRead, devWritten, outWindows, reports, polls,
                   last_time, clockReads, adapter, builder, handle>>

InitTakeFront ==
    /\ kind = "take_front"
    /\ input_buffer \in QueueChoices
    /\ frames = 0 /\ upd_frames = 0 /\ in_channels = 0 /\ out_channels = 0
    /\ in_capacity = 0 /\ output_buffer = <<>> /\ out_capacity = 0
    /\ user_buffer = <<>> /\ next_event = "In" /\ last_event = "None"
    /\ pc = "idle" /\ window_live = FALSE /\ trace = <<>>
    /\ devRead = <<>> /\ devWritten = <<>> /\ outWindows = <<>>
    /\ reports = 0 /\ polls = 0 /\ handle = NewHandle
    /\ NoClock
    /\ builder = NoBuilder
    /\ adapter = NoAdapter

NextTakeFront == TakeFront

SpecTakeFront == InitTakeFront /\ [][NextTakeFront]_vars

\* the frames per buffer, sample rate and channels a callback stream is
\* opened with (65537 frames: buffer_hz below one hertz)
CallbackFrameChoices == {1, 2, 65537}

\* NonBlockingStream as a successful run_callback() leaves it
InitCallback ==
    /\ StreamStart("none", 0, 0, 0, 0, 0, 0)
    /\ NoClock
    /\ builder = NoBuilder
    /\ \E fr \in CallbackFrameChoices, ich \in ChannelChoices, och \in ChannelChoices :
          \/ ich = och /\ adapter = NewAdapter("input", 44100, fr, ich, och)
          \/ ich = och /\ adapter = NewAdapter("output", 44100, fr, ich, och)
          \/ adapter = NewAdapter("duplex", 44100, fr, ich, och)

NextCallback == InputCallback \/ OutputCallback \/ DuplexCallback

SpecCallback == InitCallback /\ [][NextCallback]_vars

\* the builder alone, from SoundStream::new to the outcome of run()
InitBuilder ==
    /\ StreamStart("none", 0, 0, 0, 0, 0, 0)
    /\ NoClock
    /\ builder = NewBuilder
    /\ adapter = NoAdapter

NextBuilder ==
    \/ BuilderSettings
    \/ BuilderUpdateHz
    \/ BuilderUpdateFrames
    \/ BuilderUpdatesPerBuffer
    \/ BuilderRun

SpecBuilder == InitBuilder /\ [][NextBuilder]_vars

\* both builders, from new() to the outcome of run()
InitBuilders ==
    /\ StreamStart("none", 0, 0, 0, 0, 0, 0)
    /\ NoClock
    /\ \/ builder = NewBuilder
       \/ \E module \in {"input", "output", "duplex"} : builder = NewStreamBuilder(module)
    /\ adapter = NoAdapter

NextBuilders ==
    \/ BuilderSettings
    \/ BuilderUpdateHz
    \/ BuilderUpdateFrames
    \/ BuilderUpdatesPerBuffer
    \/ BuilderRun
    \/ StreamBuilderSampleHz
    \/ StreamBuilderBufferHz
    \/ StreamBuilderFramesPerBuffer
    \/ StreamBuilderChannels
    \/ StreamBuilderRun

SpecBuilders == InitBuilders /\ [][NextBuilders]_vars

----------------------------------------------------------------------------
(* Properties. *)

\* the events the calls made so far have yielded, in order (None left out)
Yielded == SelectSeq(trace, LAMBDA e : e.type # "None")

RECURSIVE Payloads(_, _)
\* the payloads of the events of type ty in events, concatenated
Payloads(events, ty) ==
    IF events = <<>> THEN <<>>
    ELSE (IF Head(events).type = ty THEN Head(events).data ELSE <<>>)
         \o Payloads(Tail(events), ty)

Cycle == <<"In", "Out", "Update">>

C2_InputConserved ==
    kind \in {"input", "duplex", "event"} =>
        Payloads(trace, "In") \o input_buffer = devRead

\* two In events have been yielded and a remainder is still buffered
C2_Witness ==
    /\ kind = "input"
    /\ Len(Payloads(trace, "In")) >= 2
    /\ Len(SelectSeq(trace, LAMBDA e : e.type = "In")) >= 2
    /\ input_buffer # <<>>

\* C3: no output sample is lost, duplicated or reordered: the buffers passed
\* to device write so far, followed by what is still queued in the output
\* accumulator and the pending window, are exactly the Out windows as the
\* caller left them, in the order they were handed out.
C3_OutputConserved ==
    kind \in {"output", "duplex", "event"} =>
        devWritten \o output_buffer \o user_buffer = outWindows

\* a short write: caller-filled samples have reached the device while
\* others stay queued behind them
C3_Witness ==
    /\ kind = "output"
    /\ devWritten # <<>>
    /\ devWritten[1] < 0
    /\ output_buffer # <<>>
    /\ output_buffer[1] < 0

\* C4 (as claimed): once a call has returned None, every later call returns
\* None as well.
C4_FailureIsTerminal ==
    \A i \in 1..Len(trace) : \A j \in i..Len(trace) :
        trace[i].type = "None" => trace[j].type = "None"

\* C5 (as claimed): over the life of a stream at most one error report is
\* emitted.
C5_ReportedOnce == reports <= 1

\* the k-th window of a device that delivers its samples window by window
Window(k) ==
    [i \in 1..buffer_size(frames, in_channels) |->
        (k - 1) * buffer_size(frames, in_channels) + i]

\* the call that met the first device failure has just returned
FirstFailureReturned ==
    /\ pc = "idle"
    /\ reports = 1
    /\ trace # <<>>
    /\ trace[Len(trace)].type = "None"

\* C6: input::BlockingStream on a device that has one window ready on every
\* poll: when the n-th poll (its availability query or its read) is the
\* first to fail, the stream has yielded exactly n-1 events, the k-th
\* carrying the k-th window as in the fault-free run, and the n-th call
\* returns None.
C6_FailAtNthPoll ==
    FirstFailureReturned =>
        /\ Len(trace) = polls
        /\ \A k \in 1..(polls - 1) : trace[k] = [type |-> "In", data |-> Window(k)]

\* the third poll failed after two good windows
C6_Witness ==
    /\ FirstFailureReturned
    /\ polls = 3
    /\ Len(Yielded) = 2

\* run() has been called and has got past, or has failed, its assertion
RunCalled == builder.last = "run"
RunRejected == RunCalled /\ builder.phase = "panicked"

\* C7: run() lets a cadence through exactly when the window equals the
\* device frame count or is at most half of it, and a rejected cadence
\* leaves nothing behind: PortAudio is not initialised, no stream is opened
\* or started, and no SoundStream exists.
C7_HalfOrEqual ==
    RunCalled =>
        /\ ~RunRejected <=>
              \/ builder.frames_per_update = builder.device_frames
              \/ 2 * builder.frames_per_update <= builder.device_frames
        /\ RunRejected =>
              /\ ~builder.pa_initialized
              /\ ~builder.stream_open
              /\ ~builder.stream_started
              /\ ~builder.stream.exists

\* a window strictly between half the device frames and the device frames
\* has been rejected
C7_Witness ==
    /\ RunRejected
    /\ 2 * builder.frames_per_update > builder.device_frames
    /\ builder.frames_per_update < builder.device_frames

C9_EvenTiling ==
    (builder.phase = "running" /\ builder.update_rate.mode \in {"Hz", "PerBuffer"}) =>
        \E k \in 0..builder.stream.stream_settings.frames :
            builder.stream.stream_settings.frames
                = k * builder.stream.update_settings.frames

\* C10 (as claimed): the window of every stream run() returns is at least
\* one frame.
C10_PositiveWindow ==
    builder.phase = "running" => builder.stream.update_settings.frames >= 1

\* C11: in frequency mode the window run() computes is
\* round(device_frames / (hz / (sample_hz / device_frames))): the integer w
\* with w - 1/2 <= Q < w + 1/2 for the quotient
\* Q = (device_frames * sample_hz) / (hz * device_frames), halves going up;
\* in explicit-frames mode it is the requested frame count itself.
C11_WindowFormula ==
    RunCalled =>
        LET q_num == builder.device_frames * builder.device_sample_hz
            q_den == builder.update_rate.n * builder.device_frames
            w == builder.frames_per_update
        IN  /\ builder.update_rate.mode = "Hz" =>
                  /\ 2 * w * q_den - q_den <= 2 * q_num
                  /\ 2 * q_num < 2 * w * q_den + q_den
            /\ builder.update_rate.mode = "Frames" => w = builder.update_rate.n

\* 1000 updates a second on 256 frames at 44100 Hz: a window of 44 frames;
\* the stream runs with it
C11_Witness ==
    /\ builder.phase = "running"
    /\ builder.update_rate = Hz(1000)
    /\ builder.device_sample_hz = 44100
    /\ builder.device_frames = 256
    /\ builder.stream.update_settings.frames = 44

\* C12 (as claimed): the input accumulator of input:: and
\* duplex::BlockingStream never holds more samples than the capacity
\* reserved at stream start, max(2 * frames * channels, 2048), whatever
\* number of frames the device reports available.
C12_InputWithinReservation ==
    kind \in {"input", "duplex"} =>
        Len(input_buffer) <= buffer_len(frames, in_channels)

\* no call has been made on the stream yet: it is as run() built it
Fresh == pc = "idle" /\ trace = <<>>

\* C13 (as claimed): every input and output accumulator is created with a
\* reserved capacity of at least twice the larger of the device window and
\* the user window, in samples, whichever stream type run() returned.
C13_DoubleReservation ==
    Fresh =>
        /\ kind \in {"input", "duplex", "event"} =>
               in_capacity >= 2 * Max(buffer_size(frames, in_channels),
                                      buffer_size(upd_frames, in_channels))
        /\ kind \in {"output", "duplex", "event"} =>
               out_capacity >= 2 * Max(buffer_size(frames, out_channels),
                                       buffer_size(upd_frames, out_channels))

\* C14: on every invocation, for the input, output and duplex adapters,
\* the wrapper answers PortAudio with the counterpart of what the user
\* function returned: Continue for Continue, Complete for Complete, Abort
\* for Abort, and nothing else, whatever the earlier invocations returned.
C14_ResultOneToOne ==
    adapter.kind \in {"input", "output", "duplex"} =>
        \A i \in 1..Len(adapter.calls) :
            LET c == adapter.calls[i]
            IN  /\ c.signal \in {"paContinue", "paComplete", "paAbort"}
                /\ c.signal = "paContinue" <=> c.result = "Continue"
                /\ c.signal = "paComplete" <=> c.result = "Complete"
                /\ c.signal = "paAbort" <=> c.result = "Abort"

\* a duplex stream whose user function continued twice and then aborted
C14_Witness ==
    /\ adapter.kind = "duplex"
    /\ Len(adapter.calls) = 3
    /\ adapter.calls[1].signal = "paContinue"
    /\ adapter.calls[2].signal = "paContinue"
    /\ adapter.calls[3].result = "Abort"
    /\ adapter.calls[3].signal = "paAbort"

RECURSIVE SumOfDeltas(_)
\* the sum of the delta-times the user function was passed over these callbacks
SumOfDeltas(calls) ==
    IF calls = <<>> THEN 0
    ELSE Head(calls).invocations[1].dt + SumOfDeltas(Tail(calls))

Updates == SelectSeq(trace, LAMBDA e : e.type = "Update")

RECURSIVE SumOfUpdates(_)
\* the sum of the deltas these Update events carry, in nanoseconds
SumOfUpdates(events) ==
    IF events = <<>> THEN 0
    ELSE Head(events).data[1].num + SumOfUpdates(Tail(events))

\* C16: in event::SoundStream the k-th Update event carries the time
\* between the clock reading of the previous Update (of stream start for
\* the first) and its own reading, as seconds; the deltas are never
\* negative; the first k of them add up to the k-th reading minus the
\* reading at stream start; and last_time changes only in a step that
\* yields an Update.
C16_UpdateDeltas ==
    /\ [](kind = "event" =>
            LET k == Len(Updates)
            IN  /\ Len(clockReads) = k + 1
                /\ last_time = clockReads[k + 1]
                /\ \A i \in 1..k :
                      /\ Updates[i].data[1].den = 1000000000
                      /\ Updates[i].data[1].num = clockReads[i + 1] - clockReads[i]
                      /\ Updates[i].data[1].num >= 0
                      /\ SumOfUpdates(SubSeq(Updates, 1, i))
                             = clockReads[i + 1] - clockReads[1])
    /\ [][last_time' # last_time =>
              /\ Len(trace') = Len(trace) + 1
              /\ trace'[Len(trace')].type = "Update"]_vars

\* two rounds: the stream started at 1, the Updates came at 2 and at 3
C16_Witness ==
    /\ kind = "event"
    /\ clockReads = <<1, 2, 3>>
    /\ Len(Updates) = 2
    /\ Updates[2].data[1].num = 1

\* the output accumulator of event::SoundStream holds more than one device
\* buffer of samples
Saturated(buffer) == Len(buffer) > buffer_size(frames, out_channels)

InputWindow == buffer_size(upd_frames, in_channels)

\* the step has yielded an event of this type
Yields(type) ==
    /\ Len(trace') = Len(trace) + 1
    /\ trace'[Len(trace')].type = type

\* C18: in input::BlockingStream, duplex::BlockingStream and
\* event::SoundStream, a step that yields In finds at least one user input
\* window (frames * channels samples) in the input accumulator, counting
\* what the step itself read; the event carries exactly the first window
\* of it, and the rest stays in the accumulator.
C18_InIsFrontWindow ==
    [][(kind \in {"input", "duplex", "event"} /\ Yields("In")) =>
          LET accumulator ==
                  input_buffer \o SubSeq(devRead', Len(devRead) + 1, Len(devRead'))
              event == trace'[Len(trace')]
          IN  /\ Len(accumulator) >= InputWindow
              /\ Len(event.data) = InputWindow
              /\ event.data = SubSeq(accumulator, 1, InputWindow)
              /\ input_buffer' = SubSeq(accumulator, InputWindow + 1,
                                        Len(accumulator))]_vars

\* event::SoundStream has yielded In with a window of two samples and a
\* third sample left in the accumulator
C18_Witness ==
    /\ kind = "event"
    /\ trace # <<>>
    /\ trace[Len(trace)].type = "In"
    /\ Len(trace[Len(trace)].data) = 2
    /\ Len(input_buffer) = 1

WriteStep(available) ==
    IF kind = "event" THEN event_write_stage(output_buffer, available, out_channels)
    ELSE write_stage(output_buffer, available, out_channels)

OutputWindow == buffer_size(upd_frames, out_channels)

\* C20: every Out event yielded by output::BlockingStream,
\* duplex::BlockingStream and event::SoundStream carries a window of
\* exactly frames * channels samples (the user's frames), every one of
\* them zero, whatever is queued for the device at that moment.
C20_OutIsSilentWindow ==
    kind \in {"output", "duplex", "event"} =>
        \A i \in 1..Len(trace) :
            trace[i].type = "Out" =>
                /\ Len(trace[i].data) = OutputWindow
                /\ \A j \in 1..Len(trace[i].data) : trace[i].data[j] = 0

\* event::SoundStream has just yielded its second Out, a window of one
\* sample, while a sample the caller filled is still queued before it
C20_Witness ==
    /\ kind = "event"
    /\ Len(trace) = 5
    /\ window_live
    /\ trace[Len(trace)].type = "Out"
    /\ Len(trace[Len(trace)].data) = 1
    /\ Len(output_buffer) = 2
    /\ output_buffer[1] < 0

\* the close sequences run so far by the caller's close() / by drop
ClosesBy(by) == SelectSeq(handle.closes, LAMBDA c : c.by = by)
\* the device and PortAudio calls made so far by close() / by drop
PaCallsBy(by) == SelectSeq(handle.pa_calls, LAMBDA c : c.by = by)

\* C21: once the handle is dropped, drop has run the close sequence exactly
\* when the caller never called close() on it, and a close sequence that
\* failed inside drop has been reported by one printed line; drop itself
\* always completes.
C21_DropClosesIffNotClosed ==
    handle.dropped =>
        /\ (ClosesBy("drop") # <<>>) <=> (ClosesBy("close") = <<>>)
        /\ Len(ClosesBy("drop")) <= 1
        /\ handle.printed = Len(SelectSeq(ClosesBy("drop"), LAMBDA c : ~c.ok))

\* a stream that yielded an event was dropped unclosed and the close
\* sequence failed
C21_Witness ==
    /\ handle.dropped /\ Yielded # <<>>
    /\ ClosesBy("close") = <<>>
    /\ Len(ClosesBy("drop")) = 1 /\ ~ClosesBy("drop")[1].ok
    /\ handle.printed = 1

\* C22: once close() has been called, with whichever result, is_closed is
\* true, and a drop that follows makes no stream.close and no
\* pa::terminate call.
C22_ClosedAfterAnyClose ==
    ClosesBy("close") # <<>> => handle.is_closed /\ PaCallsBy("drop") = <<>>

\* close() failed at stream.close, and the handle was dropped afterwards
C22_Witness ==
    /\ handle.dropped
    /\ Len(ClosesBy("close")) = 1 /\ ~ClosesBy("close")[1].ok
    /\ Len(handle.pa_calls) = 1

\* C23: every next() call made after close() returns None.
C23_ClosedYieldsNone ==
    \A i \in 1..Len(trace) :
        (ClosesBy("close") # <<>> /\ i > ClosesBy("close")[1].at)
            => trace[i].type = "None"

\* run() succeeded on a builder the caller configured nothing on
EventBuilderRan == "maybe_settings" \in DOMAIN builder /\ builder.phase = "running"
StreamBuilderRan == "module" \in DOMAIN builder /\ builder.phase = "running"
NothingConfigured ==
    \/ EventBuilderRan /\ ~builder.given_settings /\ ~builder.given_rate
    \/ /\ StreamBuilderRan
       /\ builder.maybe_buffer_frequency = NoRate /\ builder.maybe_sample_hz = NoValue
       /\ builder.in_channel_count = NoValue /\ builder.out_channel_count = NoValue

\* the Settings the events of the stream carry (event.rs 353, 373;
\* input.rs 257, output.rs 260, duplex.rs 349-352)
CarriedSettings ==
    IF EventBuilderRan THEN {builder.stream.update_settings}
    ELSE {Settings(builder.stream.sample_hz, builder.stream.frames, ch) :
             ch \in (IF builder.module \in {"input", "duplex"}
                     THEN {builder.stream.in_channels} ELSE {})
                    \cup
                    (IF builder.module \in {"output", "duplex"}
                     THEN {builder.stream.out_channels} ELSE {})}

C25_NoEmptyEvent ==
    kind \in {"input", "output", "duplex"} =>
        /\ frames >= 1 /\ in_channels >= 1 /\ out_channels >= 1
        /\ \A i \in 1..Len(trace) :
              trace[i].type \in {"In", "Out"} => trace[i].data # <<>>
        /\ (\E i \in 1..Len(trace) : trace[i].type = "In") => devRead # <<>>

RECURSIVE CallbackInputs(_)
\* the samples of the input buffers the closure passed to the callback
CallbackInputs(calls) ==
    IF calls = <<>> THEN <<>>
    ELSE CallbackInputs(SubSeq(calls, 1, Len(calls) - 1)) \o
         (LET c == calls[Len(calls)]
          IN  IF c.invocations = <<>> THEN <<>>
              ELSE device_input(c.invocations[1].input.n, c.invocations[1].input.len))

RECURSIVE CallbackOutputs(_)
\* the samples the device finds in the output buffers after the callback
\* copied each input buffer to the output buffer passed with it
CallbackOutputs(calls) ==
    IF calls = <<>> THEN <<>>
    ELSE CallbackOutputs(SubSeq(calls, 1, Len(calls) - 1)) \o
         (LET c == calls[Len(calls)]
              in == device_input(c.invocations[1].input.n, c.invocations[1].input.len)
          IN  IF c.invocations = <<>> THEN zeros(c.hw.output.len)
              ELSE [i \in 1..c.invocations[1].output.len |->
                       IF i <= Len(in) THEN in[i] ELSE 0])

\* s and t agree as far as both go
Agree(s, t) == \A i \in 1..Min(Len(s), Len(t)) : s[i] = t[i]

\* C27: with the caller copying input to output, the samples the blocking
\* driver has delivered to the caller and to the device are the samples
\* the callback driver delivers, in the same order, as far as both have
\* got.
C27_DriversAgree ==
    /\ Agree(Payloads(trace, "In"), CallbackInputs(adapter.calls))
    /\ Agree(devWritten, CallbackOutputs(adapter.calls))

\* C28: in output:: and duplex::BlockingStream the output accumulator
\* never outgrows the capacity reserved for it by run(): when the last call
\* returned Out, the accumulator has room for the window handed out, and
\* at every moment it holds no more than the reservation.
C28_OutLeavesRoom ==
    kind \in {"output", "duplex"} =>
        /\ out_capacity = buffer_len(frames, out_channels)
        /\ Len(output_buffer) <= out_capacity
        /\ (pc = "idle" /\ trace # <<>> /\ trace[Len(trace)].type = "Out") =>
               Len(output_buffer) <= out_capacity - buffer_size(frames, out_channels)

\* two windows were appended and the accumulator is full
C28_Witness ==
    /\ kind = "output" /\ frames >= 1
    /\ Len(output_buffer) = out_capacity
    /\ Len(SelectSeq(trace, LAMBDA e : e.type = "Out")) = 2

\* C29: the output accumulator of event::SoundStream never holds more than
\* one device buffer, stream_settings.buffer_size() samples.
C29_OutputWithinDeviceBuffer ==
    kind = "event" => Len(output_buffer) <= buffer_size(frames, out_channels)

\* C30: take_front(q, n) with n <= len(q) returns the first n elements of
\* q in order and leaves q holding the other len(q) - n in order; with
\* n > len(q) it panics and returns nothing.
C30_TakeFront ==
    kind = "take_front" =>
        \A i \in 1..Len(trace) :
            LET e == trace[i]
            IN  IF e.n <= Len(e.before)
                THEN /\ e.type = "Taken"
                     /\ Len(e.data) = e.n /\ Len(e.after) = Len(e.before) - e.n
                     /\ \A j \in 1..e.n : e.data[j] = e.before[j]
                     /\ \A j \in 1..Len(e.after) : e.after[j] = e.before[e.n + j]
                ELSE e.type = "panic" /\ e.data = <<>>

\* a call took two of three elements, and a second call asked the one
\* left for more than it held
C30_Witness ==
    /\ kind = "take_front" /\ Len(trace) = 2
    /\ Len(trace[1].before) = 3 /\ trace[1].n = 2 /\ trace[1].type = "Taken"
    /\ trace[1].before[1] # trace[1].before[3]
    /\ trace[2].n = 2 /\ trace[2].type = "panic"

\* C31: in input::, output:: and duplex::BlockingStream no call of
\* take_front asks for more elements than the accumulator holds: no next()
\* call panics, and whatever room the device reports next, the write step
\* takes no more than is queued.
C31_TakeFrontNeverFails ==
    kind \in {"input", "output", "duplex"} =>
        /\ pc # "panic"
        /\ \A available \in AvailChoices :
               LET ws == write_stage(output_buffer, available, out_channels)
               IN  ws.ok /\ Len(ws.write_buffer) <= Len(output_buffer)

\* a duplex stream has yielded In with a frame left behind it in the input
\* accumulator, and has written one frame of a window of two to the device
C31_Witness ==
    /\ kind = "duplex" /\ frames = 2 /\ pc = "idle"
    /\ \E i \in 1..Len(trace) : trace[i].type = "In"
    /\ input_buffer # <<>>
    /\ Len(devWritten) = out_channels
    /\ Len(output_buffer) = out_channels

\* C32: the output accumulator always holds a whole number of frames: its
\* length, the length of the pending window and the number of samples
\* passed to the device so far are multiples of the output channel count,
\* and what is queued and what was written make up the windows handed out.
C32_WholeFrames ==
    kind \in {"output", "duplex", "event"} =>
        /\ Len(output_buffer) % out_channels = 0
        /\ Len(user_buffer) % out_channels = 0
        /\ Len(devWritten) % out_channels = 0
        /\ Len(devWritten) + Len(output_buffer) + Len(user_buffer) = Len(outWindows)

\* an output stream of two channels has written one frame of the two
\* it had queued
C32_Witness ==
    /\ kind = "output" /\ out_channels = 2 /\ frames = 1
    /\ Len(devWritten) = 2
    /\ Len(output_buffer) = 2
    /\ output_buffer[1] < 0

\* the input and output windows of a duplex stream, in samples
TargetIn == buffer_size(frames, in_channels)
TargetOut == buffer_size(frames, out_channels)

\* this step is the part of a next() call before its loop
EntersCall == pc = "idle" /\ (pc' = "loop" \/ Len(trace') = Len(trace) + 1)

\* the call before this one returned Out
AfterOut == trace # <<>> /\ trace[Len(trace)].type = "Out"

C34_EveryCallReturnsIn ==
    (kind = "input" /\ pc = "loop") ~>
        (pc = "idle" /\ trace # <<>> /\ trace[Len(trace)].type = "In")

\* C35: on a device that never fails and time and again has frames to
\* read and room to write, every next() call of event::SoundStream
\* eventually returns, with the event that was due: In, Out or Update.
C35_EveryCallReturns ==
    /\ (kind = "event" /\ pc = "loop") ~> (pc = "idle")
    /\ [][(kind = "event" /\ pc = "loop" /\ pc' = "idle") =>
              /\ Len(trace') = Len(trace) + 1
              /\ trace'[Len(trace')].type = next_event]_vars

\* the eighth call is waiting at Out's turn: more than one device buffer
\* is queued and the device has taken nothing yet
C35_Witness ==
    /\ kind = "event" /\ pc = "loop" /\ next_event = "Out"
    /\ Len(trace) = 7
    /\ Len(output_buffer) > buffer_size(frames, out_channels)
    /\ devWritten = <<>>

\* C36: wait_for_stream returns Ok(n) exactly when the device reports
\* Frames(n) and Err exactly when the query fails; InputOverflowed and
\* OutputUnderflowed make it ask again and reach the caller neither as a
\* result nor as an error, so a call has returned only if the device has
\* answered a frame count or an error, and that answer was the last.
C36_WaitForStream ==
    kind = "wait_for_stream" =>
        \A i \in 1..Len(trace) :
            LET e == trace[i]
                last == e.answers[Len(e.answers)]
            IN  /\ e.type \in {"Ok", "Err", "pending"}
                /\ e.type = "pending" <=> (pc = "loop" /\ i = Len(trace))
                /\ e.type = "pending" =>
                       \A j \in 1..Len(e.answers) : e.answers[j] = FlaggedAnswer
                /\ e.type # "pending" =>
                       /\ e.answers # <<>>
                       /\ \A j \in 1..(Len(e.answers) - 1) : e.answers[j] = FlaggedAnswer
                       /\ e.type = "Ok" <=> last.tag = "Frames"
                       /\ e.type = "Ok" => e.data = <<last.n>>
                       /\ e.type = "Err" <=> last = ErrAnswer
                       /\ e.type = "Err" => e.data = <<>>

\* one call returned Ok(2) after an overflow, the next one Err after
\* another
C36_Witness ==
    /\ kind = "wait_for_stream" /\ pc = "idle" /\ Len(trace) = 2
    /\ trace[1] = [type |-> "Ok", data |-> <<2>>,
                   answers |-> <<FlaggedAnswer, FramesAnswer(2)>>]
    /\ trace[2].type = "Err" /\ trace[2].answers = <<FlaggedAnswer, ErrAnswer>>

\* the pa::terminate calls made so far on this handle
Terminations == SelectSeq(handle.pa_calls, LAMBDA c : c.op = "pa::terminate")

\* C37: over the life of a stream that run() returned, which initialised
\* PortAudio once, pa::terminate is called exactly once: never twice, and
\* once by the time the handle has been dropped.
C37_TerminateOncePerInitialize ==
    kind \in {"input", "output", "duplex", "event"} =>
        /\ Len(Terminations) <= 1
        /\ handle.dropped => Len(Terminations) = 1

\* the frames per buffer the caller asked the stream builder for
RequestedFrames ==
    IF builder.maybe_buffer_frequency.mode = "Frames" THEN builder.maybe_buffer_frequency.n
    ELSE IF builder.maybe_buffer_frequency.mode = "Hz"
    THEN round_div(builder.stream.sample_hz, builder.maybe_buffer_frequency.n)
    ELSE 0

\* C38: the frames field of the Settings a blocking stream's events carry,
\* and of the Settings every callback invocation is passed, is the frames
\* per buffer the device stream was opened with, reduced modulo 2^16,
\* whichever frame count or buffer frequency was asked for.
C38_FramesAsOpened ==
    /\ StreamBuilderRan =>
          /\ builder.device_frames = RequestedFrames
          /\ builder.stream.frames = builder.device_frames % 65536
          /\ \A st \in CarriedSettings : st.frames = builder.device_frames % 65536
    /\ adapter.kind # "none" =>
          \A i \in 1..Len(adapter.calls) :
              \A j \in 1..Len(adapter.calls[i].invocations) :
                  LET v == adapter.calls[i].invocations[j]
                      opened == adapter.frames % 65536
                  IN  /\ adapter.kind \in {"input", "duplex"} => v.in_settings.frames = opened
                      /\ adapter.kind \in {"output", "duplex"} => v.out_settings.frames = opened

\* a stream asked for one buffer a second at 100000 Hz was opened with
\* 100000 frames per buffer and reports 34464
C38_Witness ==
    /\ StreamBuilderRan
    /\ builder.maybe_buffer_frequency = Hz(1)
    /\ builder.device_frames = 100000
    /\ builder.stream.frames = 34464

\* what a turn of this stream's loop leaves behind when the device answers
\* the availability queries with ni and no frames and no call fails
QuietTurn(ni, no) ==
    IF kind = "input" THEN input_loop(<<FramesAnswer(ni)>>, TRUE)
    ELSE IF kind = "output" THEN output_loop(<<FramesAnswer(no)>>, TRUE)
    ELSE duplex_loop(<<FramesAnswer(ni)>>, TRUE, <<FramesAnswer(no)>>, TRUE)

\* the part of next() before the loop
Entry == IF kind = "input" THEN cur
         ELSE IF kind = "output" THEN output_entry ELSE duplex_entry

\* C39: next() of a blocking stream returns None only in a call in which
\* an availability query, a read or a write failed, each such call having
\* printed its report: no call returns None before its loop, and no turn
\* of the loop in which the device calls succeed returns None.
C39_NoneOnlyOnFailure ==
    /\ [](kind \in {"input", "output", "duplex"} =>
            /\ Len(SelectSeq(trace, LAMBDA e : e.type = "None")) = reports
            /\ pc = "idle" => Entry.ret # "None"
            /\ pc = "loop" => \A ni \in AvailChoices, no \in AvailChoices :
                                  QuietTurn(ni, no).ret # "None" /\ QuietTurn(ni, no).rep = 0)
    /\ [][(kind \in {"input", "output", "duplex"} /\ Len(trace') = Len(trace) + 1
              /\ trace'[Len(trace')].type = "None") =>
                 pc = "loop" /\ reports' = reports + 1]_vars

\* an input stream yielded a window, returned None from a call in which
\* the device failed, and went on to yield the next window
C39_Witness ==
    /\ kind = "input" /\ frames >= 1 /\ Len(trace) = 3 /\ reports = 1
    /\ trace[1].type = "In" /\ trace[2].type = "None" /\ trace[3].type = "In"

\* C40: in output:: and duplex::BlockingStream the pending window buffer
\* holds nothing, or, between the call that returned Out and the next
\* call, exactly the window of that Out event; the next call begins by
\* moving it whole to the back of the output accumulator and clearing it,
\* whether or not the call then fails, so inside the loop it is empty and
\* every Out window starts at offset 0.
C40_OneWindowPending ==
    /\ [](kind \in {"output", "duplex"} =>
            /\ pc = "loop" => user_buffer = <<>>
            /\ pc = "idle" =>
                   IF AfterOut
                   THEN /\ Len(user_buffer) = TargetOut
                        /\ Len(trace[Len(trace)].data) = Len(user_buffer)
                        /\ user_buffer = SubSeq(outWindows, Len(outWindows) - TargetOut + 1,
                                                Len(outWindows))
                   ELSE user_buffer = <<>>)
    /\ [][(kind \in {"output", "duplex"} /\ EntersCall) =>
              /\ output_buffer' = output_buffer \o user_buffer
              /\ user_buffer' = <<>>]_vars

\* the call after an Out event has moved the window the caller filled to
\* the output accumulator and has then failed
C40_Witness ==
    /\ kind = "duplex" /\ pc = "idle" /\ Len(trace) = 2
    /\ trace[1].type = "Out" /\ trace[2].type = "None"
    /\ user_buffer = <<>>
    /\ output_buffer # <<>> /\ output_buffer[1] < 0

====
